---------------------------- MODULE Spec2Model ----------------------------
(***************************************************************************)
(* VibeOS, Raspberry Pi Zero 2W USB host stack (DWC2).                     *)
(*                                                                         *)
(* Part 1: the keyboard report ring (usb_hid.c): kbd_ring_push runs in     *)
(* usb_irq_handler, kbd_ring_pop runs in hal_usb_keyboard_poll on the      *)
(* main loop.  The interrupt handler runs to completion (single core, not  *)
(* re-entrant), so it is one action; the main loop can be preempted        *)
(* between any two memory accesses, so hal_usb_keyboard_poll is one action *)
(* per access, the copy out of the slot being one action per byte.         *)
(*                                                                         *)
(* Part 2: the control-transfer engine (usb_transfer.c):                   *)
(* usb_control_transfer and usb_wait_for_dma_complete on channel 0, with   *)
(* the channel's hardware registers as state and the controller as an      *)
(* action that raises status bits.                                         *)
(***************************************************************************)
EXTENDS Integers, Sequences, FiniteSets, TLC

\* ------------------------------------------------------------------ bounds
\* kbd_ring_push calls modelled (each brings a fresh report); above the
\* ring's size, so that the ring fills, overflows and wraps around.
MaxPush == 17

\* Polls of the inner loop of usb_wait_for_dma_complete before it gives the
\* arm cycle up; stands for the 100000 of the code.
PollBudget == 2

\* -------------------------------------------------------- program constants
KBD_RING_SIZE == 16
REPORT_BYTES == 8
SETUP_RETRIES == 5
DATA_RETRIES == 10
STATUS_RETRIES == 5
DMA_BUFFER_MAX == 512
SETUP_BYTES == 8

\* The address enumeration recorded for the keyboard (any value in 1..127).
KBD_ADDR == 1

VARIABLES
    kbd_ring,       \* [reports, head, tail]: the static kbd_ring_t
    usb_state,      \* [initialized, device_connected, keyboard_addr]
    pc,             \* where hal_usb_keyboard_poll stands
    report_len,     \* its argument
    ring_report,    \* its local uint8_t ring_report[8]
    idx,            \* bytes of the slot copied so far by kbd_ring_pop's memcpy
    report,         \* the caller's buffer
    ret,            \* its return value
    popret,         \* what kbd_ring_pop returned to it (-1: not called)
    npush,          \* history: calls of kbd_ring_push so far
    accepted,       \* history: the reports kbd_ring_push stored, in order
    npop,           \* history: reports kbd_ring_pop removed so far
    entry_npush     \* history: npush when the running poll was entered

VARIABLES
    ct_pc,          \* usb_control_transfer: "idle", "wait", "after_wait", "done"
    stage,          \* the stage armed last: "NONE", "SETUP", "DATA", "STATUS"
    data_len,       \* argument
    data_null,      \* argument: data == NULL
    data_in,        \* argument
    HCINT0,         \* channel 0 interrupt status register: the bits set
    HCCHAR0,        \* channel 0 characteristics: [epdir, chena]
    HCTSIZ0,        \* channel 0 transfer size: [xfersize, pktcnt_one, pid]
    max_retries,    \* usb_wait_for_dma_complete: argument
    retry,          \* usb_wait_for_dma_complete: outer loop counter
    timeout,        \* usb_wait_for_dma_complete: polls left in the inner loop
    wait_ret,       \* usb_wait_for_dma_complete: return value
    bytes_transferred,
    copied,         \* bytes memcpy'd into the caller's data buffer
    ct_ret,         \* usb_control_transfer: return value
    arms,           \* history: the stages usb_control_transfer enabled, with
                    \* the direction bit written, in order
    rearms,         \* history: re-enables by the wait of the current stage
    naks,           \* history: halted+NAK polls of the current stage
    prompt,         \* history: every wait so far ended on its first poll,
                    \* which read transfer-complete
    rearmed_before, \* history: an earlier stage's wait re-enabled the channel
    failed,         \* history: a wait of this transfer returned an error
    hw_received     \* history: bytes the controller received in this stage

VARIABLES
    tick_counter,           \* static uint32_t tick_counter
    kbd_transfer_pending,   \* static volatile int
    kbd_last_transfer_tick, \* static volatile uint32_t
    port_reset_pending,     \* 0 Idle, 1 ResetAsserted, 2 WaitingForEnable
    port_reset_start_tick,  \* static volatile uint32_t
    keyboard_data_toggle,   \* static int
    debug_stats,            \* the eight counters of usb_debug_stats_t
    intr_dma_buffer,        \* the 8 bytes the keyboard channel receives into
    HPRT0,                  \* host port register: the bits set
    HCCHAR1,                \* channel 1 characteristics: [chena, chdis]
    HCINT1,                 \* channel 1 interrupt status: the bits set
    HCINTMSK1,              \* channel 1 interrupt mask: the bits unmasked
    HCTSIZ1,                \* channel 1 transfer size: [xfersize, pid]
    kt_pc,                  \* hal_usb_keyboard_tick: "idle" or "halt_wait"
    halt_i,                 \* its loop counter i of the wait for halt
    trace,                  \* history: what the handler that ran last did to
                            \* the port register, the cache, the ring and
                            \* the channel, in order
    kbd_events,             \* history: completions the controller raised
    port_events,            \* history: port changes the controller raised
    reset_tick,             \* history: tick_counter when the ISR asserted
                            \* port reset (-1: never)
    port_log                \* history: the messages of the port recovery

VARIABLES
    hub_pc,         \* usb_enumerate_hub: the request it stands before
    hub_addr,       \* argument
    num_ports,      \* argument
    port,           \* loop variable
    status,         \* local uint32_t status: the bits set
    hub_ret,        \* return value
    enum_calls,     \* history: the calls of usb_enumerate_device_at
    port_reports,   \* history: what each port answered to the status reads
                    \* (kept for the ports in its domain)
    visited         \* history: the ports the loop body was entered for

VARIABLES
    en_pc,          \* usb_enumerate_device_at: the request it stands before
    dv,             \* its arguments and locals
    en_ret,         \* the value the call that returned last returned
    en_stack,       \* the suspended callers, innermost last
    next_address,   \* usb_state.next_address
    num_devices,    \* usb_state.num_devices
    devices,        \* usb_state.devices[0 .. num_devices - 1]
    device_speed,   \* usb_state.device_speed
    keyboard_ep,    \* usb_state.keyboard_ep
    keyboard_mps,   \* usb_state.keyboard_mps
    keyboard_interval, \* usb_state.keyboard_interval
    last_req        \* history: the control request issued last

VARIABLES
    st_pc           \* usb_start_keyboard_transfer in the main loop: "idle",
                    \* "do" before usb_do_keyboard_transfer reads the
                    \* channel, "program" before it programs the channel

VARIABLES
    rq_want,        \* the request a builder was called for: the five fields
                    \* as its initialiser gives them, and the data length and
                    \* direction it hands to usb_control_transfer
    rq_bytes        \* the 8 bytes copied to the DMA buffer for the SETUP stage

ctlVars == <<ct_pc, stage, data_len, data_null, data_in, HCINT0, HCCHAR0,
             HCTSIZ0, max_retries, retry, timeout, wait_ret,
             bytes_transferred, copied, ct_ret, arms, rearms, naks, prompt,
             rearmed_before, failed, hw_received>>

ringVars == <<kbd_ring, usb_state, pc, report_len, ring_report, idx, report,
              ret, popret, npush, accepted, npop, entry_npush>>

kbdVars == <<tick_counter, kbd_transfer_pending, kbd_last_transfer_tick,
             port_reset_pending, port_reset_start_tick, keyboard_data_toggle,
             debug_stats, intr_dma_buffer, HPRT0, HCCHAR1, HCINT1, HCINTMSK1,
             HCTSIZ1, kt_pc, halt_i, trace, kbd_events, port_events,
             reset_tick, port_log>>

hubVars == <<hub_pc, hub_addr, num_ports, port, status, hub_ret, enum_calls,
             port_reports, visited>>

mainVars == <<st_pc>>

reqVars == <<rq_want, rq_bytes>>

\* The control engine's state but channel 0's interrupt status.
ctlKept == <<ct_pc, stage, data_len, data_null, data_in, HCCHAR0, HCTSIZ0,
             max_retries, retry, timeout, wait_ret, bytes_transferred, copied,
             ct_ret, arms, rearms, naks, prompt, rearmed_before, failed,
             hw_received>>

enumVars == <<en_pc, dv, en_ret, en_stack, next_address, num_devices, devices,
              device_speed, keyboard_ep, keyboard_mps, keyboard_interval,
              last_req>>

\* What the operations of one part leave alone: the state of the others.
outsideRing == <<ctlVars, kbdVars, hubVars, enumVars, mainVars, reqVars>>
outsideCtl == <<ringVars, kbdVars, hubVars, enumVars, mainVars, reqVars>>
outsideHub == <<ringVars, ctlVars, kbdVars, enumVars, mainVars, reqVars>>
\* Enumeration records the keyboard in usb_state and leaves the rest.
outsideEnum == <<kbd_ring, pc, report_len, ring_report, idx, report, ret,
                 popret, npush, accepted, npop, entry_npush, ctlVars, kbdVars,
                 mainVars, reqVars>>

Bytes == 0..REPORT_BYTES - 1
Slots == 0..KBD_RING_SIZE - 1

\* The 8 bytes the controller's DMA left in intr_dma_buffer for the k-th
\* report: reports differ in every byte, so a copy mixing two of them is
\* neither.
Report(k) == [i \in Bytes |-> k]
ZeroReport == [i \in Bytes |-> 0]
\* The caller's buffer before the call: no byte written yet.
Untouched == [i \in Bytes |-> -1]

\* ----------------------------------------------------------- kbd_ring_push
kbd_ring_push_drop_oldest(r, rep) ==
    LET next == (r.head + 1) % KBD_RING_SIZE IN
    [reports |-> [r.reports EXCEPT ![r.head] = rep],
     head    |-> next,
     tail    |-> IF next = r.tail THEN (r.tail + 1) % KBD_RING_SIZE ELSE r.tail]

kbd_ring_push_no_full_check(r, rep) ==
    [r EXCEPT !.reports[r.head] = rep,
              !.head = (r.head + 1) % KBD_RING_SIZE]

kbd_ring_push(r, rep) ==
    LET next == (r.head + 1) % KBD_RING_SIZE IN
    IF next # r.tail
    THEN [r EXCEPT !.reports[r.head] = rep, !.head = next]
    ELSE r

\* ------------------------------------------------------------ kbd_ring_pop
\* The empty test, the byte-wise memcpy out of reports[tail] and the tail
\* update are separate accesses: see pop_check, pop_copy, pop_advance.
RingEmpty(r) == r.head = r.tail
NextTail(r) == (r.tail + 1) % KBD_RING_SIZE

Min(a, b) == IF a < b THEN a ELSE b
\* ------------------------------------------------- usb_irq_handler (ISR)
\* What the handler reads from the controller: GINTSTS, HPRT0, HAINT bit 1,
\* HCINT(1) and the transfer-size field of HCTSIZ(1).
GintstsCases == SUBSET {"PRTINT", "HCHINT"}
HprtCases == { {}, {"PRTCONNDET"}, {"PRTCONNDET", "PRTCONNSTS"} }
HcintCases == { {"XFERCOMPL"}, {"CHHLTD", "ACK"}, {"CHHLTD", "NAK"},
                {"CHHLTD"}, {"CHHLTD", "STALL"} }
RemainingCases == {0, 3, 8}

\* connect_changed && !port_connected
Disconnected(gintsts, hprt) ==
    /\ "PRTINT" \in gintsts
    /\ "PRTCONNDET" \in hprt
    /\ "PRTCONNSTS" \notin hprt

\* usb_state after the port-interrupt part of the handler.
IsrPortPart(gintsts, hprt) ==
    IF Disconnected(gintsts, hprt)
    THEN [usb_state EXCEPT !.device_connected = 0, !.keyboard_addr = 0]
    ELSE usb_state

\* Whether the channel part of the handler reaches kbd_ring_push: channel 1
\* interrupted, a keyboard is (still) recorded, the status is transfer
\* complete or halted with ACK, and received = 8 - remaining is positive.
IsrPushes(us, gintsts, haint1, hcint, remaining) ==
    /\ "HCHINT" \in gintsts
    /\ haint1
    /\ us.keyboard_addr # 0
    /\ \/ "XFERCOMPL" \in hcint
       \/ "CHHLTD" \in hcint /\ "ACK" \in hcint
    /\ REPORT_BYTES - remaining > 0

\* The handler as the ring and the polling main loop see it: what it does to
\* usb_state and the ring.  Its counters, data toggle, pending flags and
\* channel 1 registers are read by neither.
usb_irq_handler ==
    \E gintsts \in GintstsCases :
    \E hprt \in (IF "PRTINT" \in gintsts THEN HprtCases ELSE {{}}) :
    \E haint1 \in (IF "HCHINT" \in gintsts THEN BOOLEAN ELSE {FALSE}) :
    \E hcint \in (IF haint1 THEN HcintCases ELSE {{}}) :
    \E remaining \in (IF haint1 THEN RemainingCases ELSE {0}) :
        LET us == IsrPortPart(gintsts, hprt)
            pushes == IsrPushes(us, gintsts, haint1, hcint, remaining)
            ring == IF pushes
                    THEN kbd_ring_push(kbd_ring, Report(npush + 1))
                    ELSE kbd_ring
        IN  /\ pushes => npush < MaxPush
            /\ usb_state' = us
            /\ kbd_ring' = ring
            /\ npush' = IF pushes THEN npush + 1 ELSE npush
            /\ accepted' = IF ring.head # kbd_ring.head
                           THEN Append(accepted, npush + 1)
                           ELSE accepted
            /\ UNCHANGED <<pc, report_len, ring_report, idx, report, ret,
                           popret, npop, entry_npush>>
            /\ UNCHANGED outsideRing

\* ------------------------------------------- hal_usb_keyboard_poll (main)
ReportLens == {0, 1, 8, 9}

\* Entry and the first test: !initialized || !device_connected.
poll_enter ==
    /\ pc \in {"idle", "ret"}
    /\ \E len \in ReportLens : report_len' = len
    /\ ring_report' = ZeroReport
    /\ report' = Untouched
    /\ idx' = 0
    /\ popret' = -1
    /\ IF usb_state.initialized = 0 \/ usb_state.device_connected = 0
       THEN pc' = "ret" /\ ret' = -1
       ELSE pc' = "chk_kbd" /\ ret' = 0
    /\ entry_npush' = npush
    /\ UNCHANGED <<kbd_ring, usb_state, npush, accepted, npop>>
    /\ UNCHANGED outsideRing

\* The second test: keyboard_addr == 0.
poll_chk_kbd ==
    /\ pc = "chk_kbd"
    /\ IF usb_state.keyboard_addr = 0
       THEN pc' = "ret" /\ ret' = -1
       ELSE pc' = "pop" /\ ret' = ret
    /\ UNCHANGED <<kbd_ring, usb_state, report_len, ring_report, idx, report,
                   popret, npush, accepted, npop, entry_npush>>
    /\ UNCHANGED outsideRing

\* kbd_ring_pop: head == tail returns 0, and the poll returns 0.
pop_check ==
    /\ pc = "pop"
    /\ IF RingEmpty(kbd_ring)
       THEN pc' = "ret" /\ popret' = 0 /\ ret' = 0
       ELSE pc' = "copy" /\ popret' = popret /\ ret' = ret
    /\ idx' = 0
    /\ UNCHANGED <<kbd_ring, usb_state, report_len, ring_report, report,
                   npush, accepted, npop, entry_npush>>
    /\ UNCHANGED outsideRing

pop_copy_newest ==
    /\ pc = "copy"
    /\ ring_report' = [ring_report EXCEPT
          ![idx] = kbd_ring.reports[(kbd_ring.head + KBD_RING_SIZE - 1)
                                       % KBD_RING_SIZE][idx]]
    /\ idx' = idx + 1
    /\ pc' = IF idx + 1 = REPORT_BYTES THEN "advance" ELSE "copy"
    /\ UNCHANGED <<kbd_ring, usb_state, report_len, report, ret, popret,
                   npush, accepted, npop, entry_npush>>
    /\ UNCHANGED outsideRing

\* kbd_ring_pop: memcpy(report, kbd_ring.reports[kbd_ring.tail], 8), a byte
\* at a time.
pop_copy ==
    /\ pc = "copy"
    /\ ring_report' = [ring_report EXCEPT
                          ![idx] = kbd_ring.reports[kbd_ring.tail][idx]]
    /\ idx' = idx + 1
    /\ pc' = IF idx + 1 = REPORT_BYTES THEN "advance" ELSE "copy"
    /\ UNCHANGED <<kbd_ring, usb_state, report_len, report, ret, popret,
                   npush, accepted, npop, entry_npush>>
    /\ UNCHANGED outsideRing

\* kbd_ring_pop: tail = (tail + 1) % KBD_RING_SIZE; return 1.
pop_advance ==
    /\ pc = "advance"
    /\ kbd_ring' = [kbd_ring EXCEPT !.tail = NextTail(kbd_ring)]
    /\ popret' = 1
    /\ npop' = npop + 1
    /\ pc' = "out"
    /\ UNCHANGED <<usb_state, report_len, ring_report, idx, report, ret,
                   npush, accepted, entry_npush>>
    /\ UNCHANGED outsideRing

\* len = min(report_len, 8); memcpy(report, ring_report, len); return len.
poll_out ==
    /\ pc = "out"
    /\ LET len == Min(report_len, REPORT_BYTES) IN
        /\ report' = [i \in Bytes |-> IF i < len THEN ring_report[i]
                                       ELSE report[i]]
        /\ ret' = len
    /\ pc' = "ret"
    /\ UNCHANGED <<kbd_ring, usb_state, report_len, ring_report, idx, popret,
                   npush, accepted, npop, entry_npush>>
    /\ UNCHANGED outsideRing

hal_usb_keyboard_poll ==
    \/ poll_enter
    \/ poll_chk_kbd
    \/ pop_check
    \/ pop_copy
    \/ pop_advance
    \/ poll_out

\* The ring is zero-initialised (static kbd_ring = {0}); usb_state is what
\* boot-time initialisation and enumeration left when the main loop starts
\* polling and interrupts are enabled.
RingInit ==
    /\ kbd_ring = [reports |-> [s \in Slots |-> ZeroReport], head |-> 0,
                   tail |-> 0]
    /\ usb_state \in [initialized : {0, 1}, device_connected : {0, 1},
                      keyboard_addr : {0, KBD_ADDR}]
    /\ pc = "idle"
    /\ report_len = 0
    /\ ring_report = ZeroReport
    /\ idx = 0
    /\ report = Untouched
    /\ ret = 0
    /\ popret = -1
    /\ npush = 0
    /\ accepted = <<>>
    /\ npop = 0
    /\ entry_npush = 0

\* =============================================== control-transfer engine
\* The channel status bits usb_wait_for_dma_complete tests.
HcintBits == {"XFERCOMPL", "CHHLTD", "ACK", "NAK", "STALL", "XACTERR",
              "BBLERR", "AHBERR"}
ErrorBits == {"STALL", "XACTERR", "BBLERR", "AHBERR"}

\* ---------------------------------------------- usb_wait_for_dma_complete
\* One pass of the inner loop over the value read from HCINT(ch): "ok" is
\* return 0, "err" is return -1, "nak" is the break to the retry loop, "none"
\* is usleep(1) and the next poll.
DmaPollOutcome_errors_first(hcint) ==
    IF "XFERCOMPL" \in hcint THEN "ok"
    ELSE IF hcint \cap ErrorBits # {} THEN "err"
    ELSE IF "CHHLTD" \in hcint
         THEN (IF "NAK" \in hcint /\ "ACK" \notin hcint THEN "nak" ELSE "ok")
    ELSE "none"

DmaPollOutcome_stall_retries(hcint) ==
    IF "XFERCOMPL" \in hcint THEN "ok"
    ELSE IF "CHHLTD" \in hcint
         THEN (IF hcint \cap {"XFERCOMPL", "ACK"} # {} THEN "ok"
               ELSE IF hcint \cap {"NAK", "STALL"} # {} THEN "nak"
               ELSE IF hcint \cap ErrorBits # {} THEN "err"
               ELSE "ok")
    ELSE IF "AHBERR" \in hcint THEN "err"
    ELSE IF "STALL" \in hcint THEN "nak"
    ELSE IF "BBLERR" \in hcint THEN "err"
    ELSE IF "XACTERR" \in hcint THEN "err"
    ELSE "none"

DmaPollOutcome(hcint) ==
    IF "XFERCOMPL" \in hcint THEN "ok"
    ELSE IF "CHHLTD" \in hcint
         THEN (IF hcint \cap {"XFERCOMPL", "ACK"} # {} THEN "ok"
               ELSE IF "NAK" \in hcint THEN "nak"
               ELSE IF hcint \cap ErrorBits # {} THEN "err"
               ELSE "ok")
    ELSE IF "AHBERR" \in hcint THEN "err"
    ELSE IF "STALL" \in hcint THEN "err"
    ELSE IF "BBLERR" \in hcint THEN "err"
    ELSE IF "XACTERR" \in hcint THEN "err"
    ELSE "none"

\* if (retry < max_retries - 1): the channel is re-enabled for another try.
RearmAllowed_always(r, m) == r < m

RearmAllowed(r, m) == r < m - 1

\* The call: the loop counters at entry.
WaitEnter(m) ==
    /\ max_retries' = m
    /\ retry' = 0
    /\ timeout' = PollBudget
    /\ ct_pc' = "wait"

\* One poll of HCINT(ch), with what follows it up to the next poll: the
\* return, or the end of the inner loop (NAK break, or polls used up), the
\* re-enable and the next pass of the retry loop.
wait_poll ==
    /\ ct_pc = "wait"
    /\ LET out == DmaPollOutcome(HCINT0)
           first == retry = 0 /\ timeout = PollBudget
           giveup == out = "nak" \/ (out = "none" /\ timeout = 1)
           rearm == giveup /\ RearmAllowed(retry, max_retries)
           last == giveup /\ retry + 1 >= max_retries
       IN
        /\ HCINT0' = IF out = "none" THEN HCINT0 ELSE {}
        /\ naks' = IF out = "nak" THEN naks + 1 ELSE naks
        /\ rearms' = IF rearm THEN rearms + 1 ELSE rearms
        /\ HCCHAR0' = IF rearm THEN [HCCHAR0 EXCEPT !.chena = 1] ELSE HCCHAR0
        /\ retry' = IF giveup THEN retry + 1 ELSE retry
        /\ timeout' = IF out = "none" /\ ~giveup THEN timeout - 1
                      ELSE IF giveup /\ ~last THEN PollBudget
                      ELSE timeout
        /\ IF out \in {"ok", "err"} \/ last
           THEN /\ ct_pc' = "after_wait"
                /\ wait_ret' = IF out = "ok" THEN 0 ELSE -1
                /\ failed' = (failed \/ out # "ok")
                /\ prompt' = (prompt /\ first /\ "XFERCOMPL" \in HCINT0)
           ELSE /\ ct_pc' = "wait"
                /\ UNCHANGED <<wait_ret, failed, prompt>>
    /\ UNCHANGED <<stage, data_len, data_null, data_in, HCTSIZ0, max_retries,
                   bytes_transferred, copied, ct_ret, arms, rearmed_before,
                   hw_received>>
    /\ UNCHANGED outsideCtl

\* --------------------------------------------------- the host controller
\* While the channel is enabled the controller raises status bits, in any
\* order and number; raising channel-halted disables the channel, so it comes
\* last.  (Bits raised outside a wait are cleared by the HCINT write that
\* precedes every enable, and are not modelled.)
HwRaise ==
    /\ ct_pc = "wait"
    /\ HCCHAR0.chena = 1
    /\ \E b \in HcintBits \ HCINT0 :
        /\ HCINT0' = HCINT0 \cup {b}
        /\ HCCHAR0' = IF b = "CHHLTD" THEN [HCCHAR0 EXCEPT !.chena = 0]
                      ELSE HCCHAR0
    /\ UNCHANGED <<ct_pc, stage, data_len, data_null, data_in, HCTSIZ0,
                   max_retries, retry, timeout, wait_ret, bytes_transferred,
                   copied, ct_ret, arms, rearms, naks, prompt, rearmed_before,
                   failed, hw_received>>
    /\ UNCHANGED outsideCtl

\* An IN transfer in progress: the controller writes the bytes received into
\* the DMA buffer and counts the transfer-size field down.
HwReceive ==
    /\ ct_pc = "wait"
    /\ HCCHAR0.chena = 1
    /\ HCCHAR0.epdir = 1
    /\ HCTSIZ0.xfersize > 0
    /\ \E n \in {3, HCTSIZ0.xfersize} :
        /\ n <= HCTSIZ0.xfersize
        /\ HCTSIZ0' = [HCTSIZ0 EXCEPT !.xfersize = HCTSIZ0.xfersize - n]
        /\ hw_received' = hw_received + n
    /\ UNCHANGED <<ct_pc, stage, data_len, data_null, data_in, HCINT0,
                   HCCHAR0, max_retries, retry, timeout, wait_ret,
                   bytes_transferred, copied, ct_ret, arms, rearms, naks,
                   prompt, rearmed_before, failed>>
    /\ UNCHANGED outsideCtl

\* --------------------------------------------------- usb_control_transfer
DataLens == {0, 8, 513}

\* if (data_len > 0 && data != NULL)
HasDataStage_len_only(len, null) == len > 0

HasDataStage(len, null) == len > 0 /\ ~null

\* int status_in = (data_len > 0) ? !data_in : 1;
StatusIn(len, in) == IF len > 0 THEN (IF in = 0 THEN 1 ELSE 0) ELSE 1

\* bytes_transferred = data_len - remaining;
BytesReceived_whole(len, remaining) == len

BytesReceived(len, remaining) == len - remaining

\* Clear the channel's interrupts, program HCCHAR and HCTSIZ, enable the
\* channel and wait with the stage's retry budget.
ArmStage(st, dir, size, pid, budget) ==
    /\ stage' = st
    /\ HCINT0' = {}
    /\ HCCHAR0' = [epdir |-> dir, chena |-> 1]
    /\ HCTSIZ0' = [xfersize |-> size, pktcnt_one |-> TRUE, pid |-> pid]
    /\ arms' = Append(arms, [stage |-> st, in |-> dir])
    /\ rearmed_before' = (stage # "NONE" /\ (rearmed_before \/ rearms > 0))
    /\ rearms' = 0
    /\ naks' = 0
    /\ hw_received' = IF st = "DATA" THEN 0 ELSE hw_received
    /\ WaitEnter(budget)

ArmStatus ==
    ArmStage("STATUS", StatusIn(data_len, data_in), 0, "DATA1",
             STATUS_RETRIES)

Return(v) ==
    /\ ct_pc' = "done"
    /\ ct_ret' = v
    /\ UNCHANGED <<stage, HCINT0, HCCHAR0, HCTSIZ0, max_retries, retry,
                   timeout, arms, rearms, naks, rearmed_before, hw_received>>

\* Entry: usb_halt_channel(0), then the SETUP stage: 8 bytes, OUT, SETUP PID.
ctl_call ==
    /\ ct_pc \in {"idle", "done"}
    /\ \E len \in DataLens, null \in BOOLEAN, in \in {0, 1} :
        /\ data_len' = len
        /\ data_null' = null
        /\ data_in' = in
    /\ bytes_transferred' = 0
    /\ copied' = 0
    /\ ct_ret' = 0
    /\ wait_ret' = 0
    /\ prompt' = TRUE
    /\ failed' = FALSE
    /\ stage' = "SETUP"
    /\ HCINT0' = {}
    /\ HCCHAR0' = [epdir |-> 0, chena |-> 1]
    /\ HCTSIZ0' = [xfersize |-> SETUP_BYTES, pktcnt_one |-> TRUE,
                   pid |-> "SETUP"]
    /\ arms' = <<[stage |-> "SETUP", in |-> 0]>>
    /\ rearmed_before' = FALSE
    /\ rearms' = 0
    /\ naks' = 0
    /\ hw_received' = 0
    /\ WaitEnter(SETUP_RETRIES)
    /\ UNCHANGED outsideCtl

\* After the SETUP wait: the DATA stage if there is one, else STATUS.
ctl_after_setup ==
    /\ ct_pc = "after_wait"
    /\ stage = "SETUP"
    /\ IF wait_ret < 0
       THEN Return(-1) /\ UNCHANGED <<bytes_transferred, copied>>
       ELSE IF HasDataStage(data_len, data_null)
       THEN IF data_len > DMA_BUFFER_MAX
            THEN Return(-1) /\ UNCHANGED <<bytes_transferred, copied>>
            ELSE /\ ArmStage("DATA", data_in, data_len, "DATA1", DATA_RETRIES)
                 /\ UNCHANGED <<bytes_transferred, copied, ct_ret>>
       ELSE ArmStatus /\ UNCHANGED <<bytes_transferred, copied, ct_ret>>
    /\ UNCHANGED <<data_len, data_null, data_in, wait_ret, prompt, failed>>
    /\ UNCHANGED outsideCtl

\* After the DATA wait: count (and for IN copy out) the bytes, then STATUS.
ctl_after_data ==
    /\ ct_pc = "after_wait"
    /\ stage = "DATA"
    /\ IF wait_ret < 0
       THEN Return(-1) /\ UNCHANGED <<bytes_transferred, copied>>
       ELSE /\ LET n == IF data_in # 0
                        THEN BytesReceived(data_len, HCTSIZ0.xfersize)
                        ELSE data_len
               IN  /\ bytes_transferred' = n
                   /\ copied' = IF data_in # 0 /\ n > 0 THEN n ELSE 0
            /\ ArmStatus
            /\ UNCHANGED ct_ret
    /\ UNCHANGED <<data_len, data_null, data_in, wait_ret, prompt, failed>>
    /\ UNCHANGED outsideCtl

\* After the STATUS wait: return bytes_transferred.
ctl_after_status ==
    /\ ct_pc = "after_wait"
    /\ stage = "STATUS"
    /\ IF wait_ret < 0 THEN Return(-1) ELSE Return(bytes_transferred)
    /\ UNCHANGED <<data_len, data_null, data_in, wait_ret, bytes_transferred,
                   copied, prompt, failed>>
    /\ UNCHANGED outsideCtl

usb_control_transfer ==
    \/ ctl_call
    \/ ctl_after_setup
    \/ ctl_after_data
    \/ ctl_after_status

usb_wait_for_dma_complete == wait_poll

CtlInit ==
    /\ ct_pc = "idle"
    /\ stage = "NONE"
    /\ data_len = 0
    /\ data_null = TRUE
    /\ data_in = 0
    /\ HCINT0 = {}
    /\ HCCHAR0 = [epdir |-> 0, chena |-> 0]
    /\ HCTSIZ0 = [xfersize |-> 0, pktcnt_one |-> TRUE, pid |-> "SETUP"]
    /\ max_retries = 0
    /\ retry = 0
    /\ timeout = 0
    /\ wait_ret = 0
    /\ bytes_transferred = 0
    /\ copied = 0
    /\ ct_ret = 0
    /\ arms = <<>>
    /\ rearms = 0
    /\ naks = 0
    /\ prompt = TRUE
    /\ rearmed_before = FALSE
    /\ failed = FALSE
    /\ hw_received = 0

\* ======================================= keyboard channel and port recovery
\* usb_irq_handler, hal_usb_keyboard_tick and usb_do_keyboard_transfer
\* against the registers of channel 1 and of the host port.  Both handlers
\* run in interrupt context on the one core, so neither preempts the other;
\* the controller acts at any time, also between two polls of the tick
\* handler's wait for the channel halt.

\* ------------------------------------------------------------------ bounds
\* Timer ticks modelled: beyond one watchdog period after a complete port
\* recovery (1 + 5 ticks of reset, 10 ticks of enable wait).
MaxTick == 17
\* Events the controller raises: status reports on channel 1 and changes
\* of the host port together.
MaxHwEvents == 3
\* Polls of the tick handler's wait for the halt; stands for the 1000 of
\* the code.
HaltPollBudget == 2

\* -------------------------------------------------------- program constants
WATCHDOG_TICKS == 5
RESET_TICKS == 5
ENABLE_WAIT_TICKS == 10

\* HPRT0: the write-1-to-clear bits, and among them the change bits that
\* raise the port interrupt.
HprtW1C == {"PRTCONNDET", "PRTENA", "PRTENCHNG", "PRTOVRCURRCHNG"}
HprtChange == {"PRTCONNDET", "PRTENCHNG", "PRTOVRCURRCHNG"}
HprtRW == {"PRTRST", "PRTPWR"}

\* The register after a write of val: a 1 written to a write-1-to-clear bit
\* clears it (for PRTENA: disables the port), the read/write bits take the
\* value written, the connection status is read-only.
HprtWrite(old, val) ==
    (old \cap {"PRTCONNSTS"}) \cup ((old \cap HprtW1C) \ val)
        \cup (val \cap HprtRW)

\* uint32_t hprt_write = hprt & ~HPRT0_PRTENA;
IsrHprtAck_raw(hprt) == hprt

IsrHprtAck(hprt) == hprt \ {"PRTENA"}

\* hprt &= ~(PRTENA | PRTCONNDET | PRTENCHNG | PRTOVRCURRCHNG)
HprtKeep(hprt) == hprt \ HprtW1C

\* hprt |= HPRT0_PRTRST, the value the ISR writes to assert reset.
IsrHprtReset(hprt) == HprtKeep(hprt) \cup {"PRTRST"}

\* hprt &= ~HPRT0_PRTRST, the value the tick handler writes to de-assert it.
TickHprtDeassert(hprt) == HprtKeep(hprt) \ {"PRTRST"}

\* Every value a read of HPRT0 can return.
HprtValues == SUBSET (HprtW1C \cup HprtRW \cup {"PRTCONNSTS"})

\* enable_changed && !port_enabled && port_connected
PortLost(hprt) ==
    /\ "PRTENCHNG" \in hprt
    /\ "PRTENA" \notin hprt
    /\ "PRTCONNSTS" \in hprt

\* HCINTMSK(ch) = HCINT_CHHLTD | HCINT_XACTERR | HCINT_BBLERR;
KbdIntMask == {"CHHLTD", "XACTERR", "BBLERR"}

Op(name, val) == [op |-> name, val |-> val]

\* The state the two handlers work on, as one record.
K == [usb_state |-> usb_state,
      kbd_ring |-> kbd_ring,
      npush |-> npush,
      accepted |-> accepted,
      tick_counter |-> tick_counter,
      kbd_transfer_pending |-> kbd_transfer_pending,
      kbd_last_transfer_tick |-> kbd_last_transfer_tick,
      port_reset_pending |-> port_reset_pending,
      port_reset_start_tick |-> port_reset_start_tick,
      keyboard_data_toggle |-> keyboard_data_toggle,
      debug_stats |-> debug_stats,
      intr_dma_buffer |-> intr_dma_buffer,
      HPRT0 |-> HPRT0,
      HCCHAR1 |-> HCCHAR1,
      HCINT1 |-> HCINT1,
      HCINTMSK1 |-> HCINTMSK1,
      HCTSIZ1 |-> HCTSIZ1,
      HCINT0 |-> HCINT0,
      trace |-> trace,
      reset_tick |-> reset_tick,
      port_log |-> port_log]

CommitKbd(m) ==
    /\ usb_state' = m.usb_state
    /\ kbd_ring' = m.kbd_ring
    /\ npush' = m.npush
    /\ accepted' = m.accepted
    /\ tick_counter' = m.tick_counter
    /\ kbd_transfer_pending' = m.kbd_transfer_pending
    /\ kbd_last_transfer_tick' = m.kbd_last_transfer_tick
    /\ port_reset_pending' = m.port_reset_pending
    /\ port_reset_start_tick' = m.port_reset_start_tick
    /\ keyboard_data_toggle' = m.keyboard_data_toggle
    /\ debug_stats' = m.debug_stats
    /\ intr_dma_buffer' = m.intr_dma_buffer
    /\ HPRT0' = m.HPRT0
    /\ HCCHAR1' = m.HCCHAR1
    /\ HCINT1' = m.HCINT1
    /\ HCINTMSK1' = m.HCINTMSK1
    /\ HCTSIZ1' = m.HCTSIZ1
    /\ HCINT0' = m.HCINT0
    /\ trace' = m.trace
    /\ reset_tick' = m.reset_tick
    /\ port_log' = m.port_log
    /\ UNCHANGED <<pc, report_len, ring_report, idx, report, ret, popret,
                   npop, entry_npush>>
    /\ UNCHANGED <<ctlKept, hubVars, enumVars, reqVars>>

\* The same for a handler: the main loop stays where it was preempted.
Commit(m) == CommitKbd(m) /\ UNCHANGED mainVars

Bump(m, counter) == [m EXCEPT !.debug_stats[counter] = @ + 1]
Did(m, name, val) == [m EXCEPT !.trace = Append(@, Op(name, val))]

\* ------------------------------------------------ usb_do_keyboard_transfer
\* Counts the restart; returns when channel 1 is still enabled; otherwise
\* records the transfer as pending at the current tick, zeroes and
\* invalidates the buffer, clears and unmasks the channel's interrupts,
\* programs 8 bytes with the PID of the software toggle and enables the
\* channel.
\* The statements up to the last one: the HCCHAR write carries no enable
\* bit, and the enable and disable bits are the controller's to clear.
KbdSetup(c) ==
    Did([c EXCEPT !.kbd_transfer_pending = 1,
                  !.kbd_last_transfer_tick = c.tick_counter,
                  !.intr_dma_buffer = ZeroReport,
                  !.HCINT1 = {},
                  !.HCINTMSK1 = KbdIntMask,
                  !.HCTSIZ1 = [xfersize |-> REPORT_BYTES,
                               pid |-> c.keyboard_data_toggle]],
        "invalidate", {})

\* HCCHAR(ch) = hcchar | HCCHAR_CHENA
KbdEnable(c) == Did([c EXCEPT !.HCCHAR1.chena = 1], "arm", {})

KbdProgram(c) == KbdEnable(KbdSetup(c))

usb_do_keyboard_transfer(m) ==
    LET c == Bump(m, "kbd_restart_count") IN
    IF m.HCCHAR1.chena = 1 THEN c ELSE KbdProgram(c)

\* ------------------------------------------------- usb_irq_handler, whole
\* The if-chain over HCINT(1): "data" for transfer complete and for halted
\* with ACK, "nak", "error" for stall, transaction error and babble, "none"
\* when no tested bit is set (halt alone).
KbdOutcome_nak_first(hcint) ==
    IF "NAK" \in hcint THEN "nak"
    ELSE IF "XFERCOMPL" \in hcint THEN "data"
    ELSE IF "CHHLTD" \in hcint /\ "ACK" \in hcint THEN "data"
    ELSE IF hcint \cap {"STALL", "XACTERR", "BBLERR"} # {} THEN "error"
    ELSE "none"

KbdOutcome(hcint) ==
    IF "XFERCOMPL" \in hcint THEN "data"
    ELSE IF "CHHLTD" \in hcint /\ "ACK" \in hcint THEN "data"
    ELSE IF "NAK" \in hcint THEN "nak"
    ELSE IF hcint \cap {"STALL", "XACTERR", "BBLERR"} # {} THEN "error"
    ELSE "none"

\* The port-interrupt part: acknowledge the change bits, assert reset when
\* the port was disabled with the device still connected, forget the device
\* when it was disconnected.
IsrPort_keeps(m) ==
    LET hprt == m.HPRT0
        ack == IsrHprtAck(hprt)
        m1 == Did([Bump(m, "port_irq_count") EXCEPT
                      !.HPRT0 = HprtWrite(m.HPRT0, ack)],
                  "HPRT0", ack)
        rst == IsrHprtReset(m1.HPRT0)
        m2 == IF PortLost(hprt)
              THEN Did([m1 EXCEPT !.HPRT0 = HprtWrite(m1.HPRT0, rst),
                                  !.port_reset_pending = 1,
                                  !.port_reset_start_tick = 0,
                                  !.kbd_transfer_pending = 0,
                                  !.reset_tick = m.tick_counter],
                       "HPRT0", rst)
              ELSE m1
    IN  IF Disconnected({"PRTINT"}, hprt)
        THEN [m2 EXCEPT !.usb_state.device_connected = 0,
                        !.kbd_transfer_pending = 0]
        ELSE m2

IsrPort(m) ==
    LET hprt == m.HPRT0
        ack == IsrHprtAck(hprt)
        m1 == Did([Bump(m, "port_irq_count") EXCEPT
                      !.HPRT0 = HprtWrite(m.HPRT0, ack)],
                  "HPRT0", ack)
        rst == IsrHprtReset(m1.HPRT0)
        m2 == IF PortLost(hprt)
              THEN Did([m1 EXCEPT !.HPRT0 = HprtWrite(m1.HPRT0, rst),
                                  !.port_reset_pending = 1,
                                  !.port_reset_start_tick = 0,
                                  !.kbd_transfer_pending = 0,
                                  !.reset_tick = m.tick_counter],
                       "HPRT0", rst)
              ELSE m1
    IN  IF Disconnected({"PRTINT"}, hprt)
        THEN [m2 EXCEPT !.usb_state.device_connected = 0,
                        !.usb_state.keyboard_addr = 0,
                        !.kbd_transfer_pending = 0]
        ELSE m2

\* The data branches: flip the toggle, invalidate the buffer, and when
\* received = 8 - remaining is positive push the buffer and count it.
IsrData(m) ==
    LET m1 == Did([m EXCEPT !.keyboard_data_toggle = 1 - @],
                  "invalidate", {})
        ring == kbd_ring_push(m.kbd_ring, m.intr_dma_buffer)
    IN  IF REPORT_BYTES - m.HCTSIZ1.xfersize > 0
        THEN Bump(Did([m1 EXCEPT
                          !.kbd_ring = ring,
                          !.npush = @ + 1,
                          !.accepted = IF ring.head # m.kbd_ring.head
                                       THEN Append(@, m.npush + 1)
                                       ELSE @],
                      "push", {}),
                  "kbd_data_count")
        ELSE m1

\* The channel part for channel 1: with a keyboard recorded decode the
\* status, clear the channel's interrupts and restart the transfer;
\* without one only clear the interrupts.
IsrChannel1(m) ==
    LET out == KbdOutcome(m.HCINT1)
        m1 == Bump(m, "kbd_irq_count")
        m2 == IF out = "data" THEN IsrData(m1)
              ELSE IF out = "nak" THEN Bump(m1, "kbd_nak_count")
              ELSE IF out = "error" THEN Bump(m1, "kbd_error_count")
              ELSE m1
    IN  IF m.usb_state.keyboard_addr # 0
        THEN usb_do_keyboard_transfer(
                 [m2 EXCEPT !.HCINT1 = {}, !.kbd_transfer_pending = 0])
        ELSE [m EXCEPT !.HCINT1 = {}]

\* HCINTMSK(0) as usb_control_transfer leaves it.
CtlIntMask == {"XFERCOMPL", "CHHLTD", "STALL", "NAK", "ACK", "XACTERR",
               "BBLERR", "AHBERR"}

\* The loop over HAINT for the channels other than the keyboard's: a channel
\* flagged in HAINT, that is with an unmasked status bit set, gets its
\* interrupt status cleared.  Channel 0 is the one in use.
IsrOtherChannels(m) ==
    IF m.HCINT0 \cap CtlIntMask # {} THEN [m EXCEPT !.HCINT0 = {}] ELSE m

\* GINTSTS as the handler reads it: the port interrupt while a change bit of
\* HPRT0 is set, the host-channel interrupt while an unmasked status bit of
\* channel 1 is set (channel 0, which the control engine polls, is taken
\* not to raise it).
Gintsts ==
    (IF HPRT0 \cap HprtChange # {} THEN {"PRTINT"} ELSE {})
        \cup (IF HCINT1 \cap HCINTMSK1 # {} THEN {"HCHINT"} ELSE {})

\* The handler against the registers, taken when the controller's interrupt
\* line is asserted and no other handler runs.
usb_irq_handler_hw ==
    /\ kt_pc = "idle"
    /\ Gintsts # {}
    /\ LET m0 == Bump([K EXCEPT !.trace = <<>>], "irq_count")
           m1 == IF "PRTINT" \in Gintsts THEN IsrPort(m0) ELSE m0
           m2 == IF "HCHINT" \in Gintsts THEN IsrChannel1(m1) ELSE m1
           m3 == IF "HCHINT" \in Gintsts THEN IsrOtherChannels(m2) ELSE m2
       IN  Commit(m3)
    /\ UNCHANGED <<kt_pc, halt_i, kbd_events, port_events>>

\* --------------------------------------------------- hal_usb_keyboard_tick
\* if (tick_counter - port_reset_start_tick >= 5)
ResetHeld_four(now, start) == now - start >= RESET_TICKS - 1

ResetHeld(now, start) == now - start >= RESET_TICKS

\* else if (tick_counter - port_reset_start_tick >= 10)
EnableWaitOver_never(now, start) == FALSE

EnableWaitOver(now, start) == now - start >= ENABLE_WAIT_TICKS

\* kbd_transfer_pending && (tick_counter - kbd_last_transfer_tick) >= 5
WatchdogDue(pending, now, last) ==
    pending # 0 /\ now - last >= WATCHDOG_TICKS

\* Phase 1 of the port recovery: the first tick records the start, a later
\* tick de-asserts reset once it was held long enough.
TickResetAsserted(m) ==
    IF m.port_reset_start_tick = 0
    THEN [m EXCEPT !.port_reset_start_tick = m.tick_counter]
    ELSE IF ResetHeld(m.tick_counter, m.port_reset_start_tick)
    THEN LET w == TickHprtDeassert(m.HPRT0) IN
         Did([m EXCEPT !.HPRT0 = HprtWrite(m.HPRT0, w),
                       !.port_reset_pending = 2,
                       !.port_reset_start_tick = m.tick_counter],
             "HPRT0", w)
    ELSE m

\* Phase 2: the port enabled ends the recovery and resumes polling; the
\* deadline ends it with a message.
TickWaitingForEnable(m) ==
    IF "PRTENA" \in m.HPRT0
    THEN LET m1 == [m EXCEPT !.port_log = Append(@, "re-enabled"),
                             !.port_reset_pending = 0]
         IN  IF m.usb_state.keyboard_addr # 0
             THEN usb_do_keyboard_transfer(m1)
             ELSE m1
    ELSE IF EnableWaitOver(m.tick_counter, m.port_reset_start_tick)
    THEN [m EXCEPT !.port_log = Append(@, "timeout"),
                   !.port_reset_pending = 0]
    ELSE m

\* The end of the watchdog branch: kbd_transfer_pending = 0 and the restart.
WatchdogRestart(m) ==
    usb_do_keyboard_transfer([m EXCEPT !.kbd_transfer_pending = 0])

\* The call up to its return, or up to the wait for the halt of a channel
\* the watchdog found enabled.
tick_enter ==
    /\ kt_pc = "idle"
    /\ tick_counter < MaxTick
    /\ LET m == [K EXCEPT !.tick_counter = @ + 1, !.trace = <<>>]
           normal == /\ m.usb_state.initialized # 0
                     /\ m.usb_state.device_connected # 0
                     /\ m.usb_state.keyboard_addr # 0
           due == WatchdogDue(m.kbd_transfer_pending, m.tick_counter,
                              m.kbd_last_transfer_tick)
       IN
        IF m.port_reset_pending = 1
        THEN Commit(TickResetAsserted(m)) /\ UNCHANGED <<kt_pc, halt_i>>
        ELSE IF m.port_reset_pending = 2
        THEN Commit(TickWaitingForEnable(m)) /\ UNCHANGED <<kt_pc, halt_i>>
        ELSE IF ~normal
        THEN Commit(m) /\ UNCHANGED <<kt_pc, halt_i>>
        ELSE IF due /\ m.HCCHAR1.chena = 1
        THEN /\ Commit(Did([Bump(m, "watchdog_kicks") EXCEPT
                               !.HCCHAR1.chdis = 1],
                           "disable", {}))
             /\ kt_pc' = "halt_wait"
             /\ halt_i' = 0
        ELSE IF due
        THEN /\ Commit(WatchdogRestart(Bump(m, "watchdog_kicks")))
             /\ UNCHANGED <<kt_pc, halt_i>>
        ELSE IF m.kbd_transfer_pending = 0 /\ m.HCCHAR1.chena = 0
        THEN Commit(usb_do_keyboard_transfer(m)) /\ UNCHANGED <<kt_pc, halt_i>>
        ELSE Commit(m) /\ UNCHANGED <<kt_pc, halt_i>>
    /\ UNCHANGED <<kbd_events, port_events>>

\* for (i = 0; i < 1000; i++) if (HCINT(1) & HCINT_CHHLTD) break;
HaltWaitOver_unbounded(i, hcint) == "CHHLTD" \in hcint

HaltWaitOver(i, hcint) == "CHHLTD" \in hcint \/ i + 1 >= HaltPollBudget

\* One poll of the wait for the halt; the poll that ends the wait is
\* followed by the clearing of the channel's interrupts and the restart.
tick_halt_poll ==
    /\ kt_pc = "halt_wait"
    /\ IF HaltWaitOver(halt_i, HCINT1)
       THEN /\ Commit(WatchdogRestart([K EXCEPT !.HCINT1 = {}]))
            /\ kt_pc' = "idle"
            /\ halt_i' = halt_i
       ELSE /\ halt_i' = halt_i + 1
            /\ kt_pc' = kt_pc
            /\ Commit(K)
    /\ UNCHANGED <<kbd_events, port_events>>

hal_usb_keyboard_tick ==
    \/ tick_enter
    \/ tick_halt_poll

\* ------------------------------------------- the controller, channel 1
\* What the controller reports on an enabled channel 1, a report at a time:
\* completions (with the halt that ends the transfer), a NAK, and an error
\* flagged before the halt that follows it.
KbdHwCases == { {"XFERCOMPL", "CHHLTD"}, {"CHHLTD", "ACK"}, {"CHHLTD", "NAK"},
                {"CHHLTD"}, {"CHHLTD", "STALL"}, {"XACTERR"}, {"NAK"} }
\* Bytes of a report the device sent: none, or a whole one.
KbdHwBytes == {0, 8}

HwKbd ==
    /\ HCCHAR1.chena = 1
    /\ kbd_events + port_events < MaxHwEvents
    /\ \E bits \in KbdHwCases :
       \E n \in (IF bits \cap {"XFERCOMPL", "ACK"} # {} THEN KbdHwBytes
                 ELSE {0}) :
        /\ n <= HCTSIZ1.xfersize
        /\ HCINT1' = HCINT1 \cup bits
        /\ HCCHAR1' = IF "CHHLTD" \in bits THEN [chena |-> 0, chdis |-> 0]
                      ELSE HCCHAR1
        /\ HCTSIZ1' = [HCTSIZ1 EXCEPT !.xfersize = @ - n]
        /\ intr_dma_buffer' = [i \in Bytes |->
                                  IF i < n THEN kbd_events + 1
                                  ELSE intr_dma_buffer[i]]
    /\ kbd_events' = kbd_events + 1
    /\ UNCHANGED <<tick_counter, kbd_transfer_pending,
                   kbd_last_transfer_tick, port_reset_pending,
                   port_reset_start_tick, keyboard_data_toggle, debug_stats,
                   HPRT0, HCINTMSK1, kt_pc, halt_i, trace, port_events,
                   reset_tick, port_log>>
    /\ UNCHANGED <<ringVars, ctlVars, hubVars, enumVars, mainVars, reqVars>>

\* ------------------------------------------- the controller, host port
\* The port is disabled with the device still attached, the device is
\* detached, the port comes up enabled once reset is not asserted, or the
\* overcurrent status changes.
HprtAfter(ev) ==
    IF ev = "disable"
    THEN (HPRT0 \ {"PRTENA"}) \cup {"PRTENCHNG"}
    ELSE IF ev = "detach"
    THEN (HPRT0 \ {"PRTENA", "PRTCONNSTS"}) \cup {"PRTCONNDET"}
             \cup (IF "PRTENA" \in HPRT0 THEN {"PRTENCHNG"} ELSE {})
    ELSE IF ev = "enable"
    THEN HPRT0 \cup {"PRTENA", "PRTENCHNG"}
    ELSE HPRT0 \cup {"PRTOVRCURRCHNG"}

HwPortCan(ev) ==
    IF ev = "disable" THEN "PRTENA" \in HPRT0
    ELSE IF ev = "detach" THEN "PRTCONNSTS" \in HPRT0
    ELSE IF ev = "enable"
    THEN /\ "PRTCONNSTS" \in HPRT0
         /\ "PRTENA" \notin HPRT0
         /\ "PRTRST" \notin HPRT0
    ELSE "PRTOVRCURRCHNG" \notin HPRT0

HwPort ==
    /\ kbd_events + port_events < MaxHwEvents
    /\ \E ev \in {"disable", "detach", "enable", "overcurrent"} :
        /\ HwPortCan(ev)
        /\ HPRT0' = HprtAfter(ev)
    /\ port_events' = port_events + 1
    /\ UNCHANGED <<tick_counter, kbd_transfer_pending,
                   kbd_last_transfer_tick, port_reset_pending,
                   port_reset_start_tick, keyboard_data_toggle, debug_stats,
                   intr_dma_buffer, HCCHAR1, HCINT1, HCINTMSK1, HCTSIZ1,
                   kt_pc, halt_i, trace, kbd_events, reset_tick, port_log>>
    /\ UNCHANGED <<ringVars, ctlVars, hubVars, enumVars, mainVars, reqVars>>

\* ---------------------------------------------- usb_start_keyboard_transfer
\* The main loop's call.  The handlers preempt it between its steps: after
\* its tests at entry, and inside usb_do_keyboard_transfer after the test of
\* the channel's enable bit.
\* The tests at entry (a call that returns at the first two changes
\* nothing): with the channel enabled its disable is requested and the
\* call returns; otherwise usb_do_keyboard_transfer is called.
start_enter ==
    /\ st_pc = "idle"
    /\ kt_pc = "idle"
    /\ ct_pc \in {"idle", "done"}
    /\ kbd_transfer_pending = 0
    /\ usb_state.keyboard_addr # 0
    /\ IF HCCHAR1.chena = 1
       THEN CommitKbd([K EXCEPT !.HCCHAR1.chdis = 1]) /\ st_pc' = "idle"
       ELSE CommitKbd(K) /\ st_pc' = "do"
    /\ UNCHANGED <<kt_pc, halt_i, kbd_events, port_events>>

\* usb_do_keyboard_transfer up to its test of the enable bit.
start_do ==
    /\ st_pc = "do"
    /\ kt_pc = "idle"
    /\ CommitKbd(Bump(K, "kbd_restart_count"))
    /\ st_pc' = IF HCCHAR1.chena = 1 THEN "idle" ELSE "program"
    /\ UNCHANGED <<kt_pc, halt_i, kbd_events, port_events>>

\* The rest of usb_do_keyboard_transfer but its last statement: the transfer
\* is recorded as pending, the buffer zeroed and invalidated, the channel's
\* interrupts cleared and its registers programmed.
start_program ==
    /\ st_pc = "program"
    /\ kt_pc = "idle"
    /\ CommitKbd(KbdSetup([K EXCEPT !.trace = <<>>]))
    /\ st_pc' = "enable"
    /\ UNCHANGED <<kt_pc, halt_i, kbd_events, port_events>>

\* The last statement: the channel is enabled.
start_enable ==
    /\ st_pc = "enable"
    /\ kt_pc = "idle"
    /\ CommitKbd(KbdEnable(K))
    /\ st_pc' = "idle"
    /\ UNCHANGED <<kt_pc, halt_i, kbd_events, port_events>>

usb_start_keyboard_transfer ==
    \/ start_enter
    \/ start_do
    \/ start_program
    \/ start_enable

Counters == {"irq_count", "kbd_irq_count", "kbd_data_count", "kbd_nak_count",
             "kbd_error_count", "kbd_restart_count", "port_irq_count",
             "watchdog_kicks"}

\* The statics are zero-initialised; the port is powered, connected and
\* enabled, as enumeration left it, and channel 1 was never used.
KbdInit ==
    /\ tick_counter = 0
    /\ kbd_transfer_pending = 0
    /\ kbd_last_transfer_tick = 0
    /\ port_reset_pending = 0
    /\ port_reset_start_tick = 0
    /\ keyboard_data_toggle = 0
    /\ debug_stats = [c \in Counters |-> 0]
    /\ intr_dma_buffer = ZeroReport
    /\ HPRT0 = {"PRTPWR", "PRTCONNSTS", "PRTENA"}
    /\ HCCHAR1 = [chena |-> 0, chdis |-> 0]
    /\ HCINT1 = {}
    /\ HCINTMSK1 = {}
    /\ HCTSIZ1 = [xfersize |-> 0, pid |-> 0]
    /\ kt_pc = "idle"
    /\ halt_i = 0
    /\ trace = <<>>
    /\ kbd_events = 0
    /\ port_events = 0
    /\ reset_tick = -1
    /\ port_log = <<>>

\* ======================================================= usb_enumerate_hub
\* The port loop of usb_enumerate_hub, a step per request to the hub.  Each
\* request is a control transfer; what the hub answers is the controller's
\* and the hub's choice: the request fails, or it succeeds and, for a
\* status read, delivers the port's status word or the first bytes of it.

\* ------------------------------------------------------------------ bounds
\* Ports of the hubs modelled.
MaxPorts == 4

HubAddrs == {1, 2}
PortStatusBits == {"CONNECTION", "ENABLE", "LOW_SPEED", "HIGH_SPEED"}
\* The status words a port answers with.
PortStatusCases == { {}, {"ENABLE"}, {"CONNECTION"},
                     {"CONNECTION", "ENABLE"},
                     {"CONNECTION", "ENABLE", "LOW_SPEED"},
                     {"CONNECTION", "ENABLE", "HIGH_SPEED"},
                     {"CONNECTION", "ENABLE", "LOW_SPEED", "HIGH_SPEED"} }

\* The bits of the status word's first byte; the speed bits are in the second.
StatusByte0 == {"CONNECTION", "ENABLE"}
\* Bytes of the 4 asked for that a successful status read delivers: the
\* request returns the number of bytes received, and any number from 0 on
\* passes the caller's test for failure.
StatusReplyBytes == {0, 1, 4}
\* uint32_t status after a read that delivered n bytes of the word st: the
\* bytes not delivered keep what the variable held.
StatusAfterRead(old, st, n) ==
    IF n = 0 THEN old
    ELSE IF n = 1 THEN (old \ StatusByte0) \cup (st \cap StatusByte0)
    ELSE st

\* A hub of more ports than MaxPorts has a device on every port and answers
\* every request in full: its ports differ in nothing but their number.
WideHub == num_ports > MaxPorts
PortAccepts == IF WideHub THEN {TRUE} ELSE BOOLEAN
PortAnswers == IF WideHub THEN {{"CONNECTION", "ENABLE"}} ELSE PortStatusCases
AnswerBytes == IF WideHub THEN {4} ELSE StatusReplyBytes

\* if (!(status & USB_PORT_STAT_CONNECTION)) continue;
PortConnected(st) == "CONNECTION" \in st

\* if (!(status & USB_PORT_STAT_ENABLE)) continue;
PortEnabled(st) == "ENABLE" \in st

\* speed: 2 low, 0 high, 1 full (the default).
PortSpeed(st) ==
    IF "LOW_SPEED" \in st THEN 2
    ELSE IF "HIGH_SPEED" \in st THEN 0
    ELSE 1

\* for (...; port <= num_ports; port++)
PortAfter(p) == p + 1

Unread == [connected |-> "unread", enabled |-> "unread"]
YesNo(b) == IF b THEN "yes" ELSE "no"

\* The loop left at the first failure.
HubContinue_stop ==
    /\ port' = port
    /\ hub_pc' = "done"
    /\ hub_ret' = -1

\* continue, and the loop test: the next port, or return 0.
HubContinue ==
    /\ port' = PortAfter(port)
    /\ IF PortAfter(port) <= num_ports
       THEN hub_pc' = "power" /\ hub_ret' = hub_ret
       ELSE hub_pc' = "done" /\ hub_ret' = 0

\* Entry and the first loop test.
hub_call ==
    /\ hub_pc \in {"idle", "done"}
    /\ \E h \in HubAddrs, n \in 0..MaxPorts :
        /\ hub_addr' = h
        /\ num_ports' = n
        /\ IF 1 <= n
           THEN hub_pc' = "power" /\ hub_ret' = -1
           ELSE hub_pc' = "done" /\ hub_ret' = 0
    /\ port' = 1
    /\ status' = {}
    /\ enum_calls' = <<>>
    /\ port_reports' = [p \in 1..MaxPorts |-> Unread]
    /\ visited' = <<>>
    /\ UNCHANGED outsideHub

\* usb_set_port_feature(hub_addr, port, USB_PORT_FEAT_POWER)
hub_power ==
    /\ hub_pc = "power"
    /\ visited' = Append(visited, port)
    /\ status' = {}
    /\ \E ok \in PortAccepts :
        IF ok
        THEN hub_pc' = "status1" /\ UNCHANGED <<port, hub_ret>>
        ELSE HubContinue
    /\ UNCHANGED <<hub_addr, num_ports, enum_calls, port_reports>>
    /\ UNCHANGED outsideHub

\* usb_get_port_status after power-on, and the connection test.
hub_status1 ==
    /\ hub_pc = "status1"
    /\ \/ /\ ~WideHub
          /\ HubContinue
          /\ UNCHANGED <<status, port_reports>>
       \/ \E st \in PortAnswers, n \in AnswerBytes :
           /\ status' = StatusAfterRead(status, st, n)
           /\ port_reports' =
                  IF port \in DOMAIN port_reports
                  THEN [port_reports EXCEPT
                          ![port].connected =
                              IF n > 0 THEN YesNo("CONNECTION" \in st) ELSE @]
                  ELSE port_reports
           /\ IF PortConnected(status')
              THEN hub_pc' = "reset" /\ UNCHANGED <<port, hub_ret>>
              ELSE HubContinue
    /\ UNCHANGED <<hub_addr, num_ports, enum_calls, visited>>
    /\ UNCHANGED outsideHub

\* usb_set_port_feature(hub_addr, port, USB_PORT_FEAT_RESET)
hub_reset ==
    /\ hub_pc = "reset"
    /\ \E ok \in PortAccepts :
        IF ok
        THEN hub_pc' = "status2" /\ UNCHANGED <<port, hub_ret>>
        ELSE HubContinue
    /\ UNCHANGED <<hub_addr, num_ports, status, enum_calls, port_reports,
                   visited>>
    /\ UNCHANGED outsideHub

\* usb_get_port_status after the reset.
hub_status2 ==
    /\ hub_pc = "status2"
    /\ \/ /\ ~WideHub
          /\ HubContinue
          /\ UNCHANGED <<status, port_reports>>
       \/ \E st \in PortAnswers, n \in AnswerBytes :
           /\ status' = StatusAfterRead(status, st, n)
           /\ port_reports' =
                  IF port \in DOMAIN port_reports
                  THEN [port_reports EXCEPT
                          ![port].enabled =
                              IF n > 0 THEN YesNo("ENABLE" \in st) ELSE @]
                  ELSE port_reports
           /\ hub_pc' = "clear"
           /\ UNCHANGED <<port, hub_ret>>
    /\ UNCHANGED <<hub_addr, num_ports, enum_calls, visited>>
    /\ UNCHANGED outsideHub

\* usb_clear_port_feature(..., USB_PORT_FEAT_C_RESET), its result ignored,
\* and the enabled test.
hub_clear ==
    /\ hub_pc = "clear"
    /\ IF PortEnabled(status)
       THEN hub_pc' = "enum" /\ UNCHANGED <<port, hub_ret>>
       ELSE HubContinue
    /\ UNCHANGED <<hub_addr, num_ports, status, enum_calls, port_reports,
                   visited>>
    /\ UNCHANGED outsideHub

\* usb_enumerate_device_at(hub_addr, port, speed), its result ignored.
hub_enum ==
    /\ hub_pc = "enum"
    /\ enum_calls' = Append(enum_calls,
                            [hub |-> hub_addr, port |-> port,
                             speed |-> PortSpeed(status)])
    /\ HubContinue
    /\ UNCHANGED <<hub_addr, num_ports, status, port_reports, visited>>
    /\ UNCHANGED outsideHub

usb_enumerate_hub ==
    \/ hub_call
    \/ hub_power
    \/ hub_status1
    \/ hub_reset
    \/ hub_status2
    \/ hub_clear
    \/ hub_enum

HubInit ==
    /\ hub_pc = "idle"
    /\ hub_addr = 0
    /\ num_ports = 0
    /\ port = 0
    /\ status = {}
    /\ hub_ret = 0
    /\ enum_calls = <<>>
    /\ port_reports = [p \in 1..MaxPorts |-> Unread]
    /\ visited = <<>>

\* ================================================= usb_enumerate_device_at
\* usb_enumerate_device, usb_enumerate_device_at and, through the port loop
\* above, the hubs below a device: a step per control request.  What a
\* request answers is the device's choice: it fails, or it succeeds with a
\* number of bytes received.  A call of usb_enumerate_hub suspends the
\* device being enumerated and a call of usb_enumerate_device_at suspends
\* the port loop; en_stack holds the suspended callers.

\* ------------------------------------------------------------------ bounds
\* Capacity of usb_state.devices; the header that sets it is not part of
\* the sources, the value stands for it.
MAX_USB_DEVICES == 2
\* Ports a hub reports in its hub descriptor.
MaxHubPorts == 2

\* -------------------------------------------------------- program constants
USB_DESC_INTERFACE == 4
USB_DESC_ENDPOINT == 5
USB_CLASS_HID == 3
USB_CLASS_HUB == 9
USB_HID_PROTOCOL_KEYBOARD == 1
\* sizeof(config_buf), sizeof(usb_device_descriptor_t), and the least
\* byte counts accepted for the first device descriptor read, the
\* configuration descriptor and the hub descriptor.
CONFIG_BUF_SIZE == 256
DEVICE_DESC_SIZE == 18
DEVICE_DESC_MIN == 8
CONFIG_DESC_MIN == 9
HUB_DESC_MIN == 7

\* ------------------------------------------- configuration descriptors
\* The descriptors a device answers with, as the bytes on the wire.
ConfigHeader(blen, total, cfgval) ==
    <<blen, 2, total % 256, total \div 256, 1, cfgval, 0, 160, 50>>
IfaceDesc(num, class, proto) == <<9, 4, num, 0, 1, class, 1, proto, 0>>
HidDesc == <<9, 33, 17, 1, 0, 1, 34, 63, 0>>
EpDesc(addr, attr, mps, interval) ==
    <<7, 5, addr, attr, mps % 256, mps \div 256, interval>>
Zeros(n) == [i \in 1..n |-> 0]

\* A mass-storage device; a boot keyboard; a keyboard whose interrupt OUT
\* endpoint comes first; a keyboard interface without endpoint followed by
\* a mouse interface with one; two boot-keyboard interfaces; a mouse; a
\* hub; a sub-descriptor of length 0; sub-descriptors of length 1; a bad
\* bLength in the header; a descriptor that fills the buffer and declares
\* more, with an interface descriptor across the buffer's end.
ConfigImage(name) ==
    CASE name = "storage" ->
           ConfigHeader(9, 32, 1) \o IfaceDesc(0, 8, 80)
               \o EpDesc(129, 2, 64, 0) \o EpDesc(2, 2, 64, 0)
      [] name = "keyboard" ->
           ConfigHeader(9, 34, 1) \o IfaceDesc(0, USB_CLASS_HID, 1) \o HidDesc
               \o EpDesc(129, 3, 8, 10)
      [] name = "kbd_out_first" ->
           ConfigHeader(9, 41, 1) \o IfaceDesc(0, USB_CLASS_HID, 1) \o HidDesc
               \o EpDesc(1, 3, 8, 10) \o EpDesc(130, 3, 8, 4)
      [] name = "kbd_then_mouse" ->
           ConfigHeader(9, 52, 1) \o IfaceDesc(0, USB_CLASS_HID, 1) \o HidDesc
               \o IfaceDesc(1, USB_CLASS_HID, 2) \o HidDesc
               \o EpDesc(130, 3, 4, 7)
      [] name = "two_kbd" ->
           ConfigHeader(9, 59, 1) \o IfaceDesc(0, USB_CLASS_HID, 1) \o HidDesc
               \o EpDesc(129, 3, 8, 10)
               \o IfaceDesc(1, USB_CLASS_HID, 1) \o HidDesc
               \o EpDesc(130, 3, 8, 10)
      [] name = "mouse" ->
           ConfigHeader(9, 34, 1) \o IfaceDesc(0, USB_CLASS_HID, 2) \o HidDesc
               \o EpDesc(129, 3, 4, 10)
      [] name = "hub" ->
           ConfigHeader(9, 25, 1) \o IfaceDesc(0, USB_CLASS_HUB, 0)
               \o EpDesc(129, 3, 1, 12)
      [] name = "zero_len" ->
           ConfigHeader(9, 34, 1) \o <<0, 4, 0, 0, 1, USB_CLASS_HID, 1, 1, 0>>
               \o HidDesc \o EpDesc(129, 3, 8, 10)
      [] name = "len_one" ->
           ConfigHeader(9, 37, 1) \o <<1, 1, 1>>
               \o IfaceDesc(0, USB_CLASS_HID, 1) \o HidDesc
               \o EpDesc(129, 3, 8, 10)
      [] name = "bad_header" ->
           ConfigHeader(4, 34, 2) \o IfaceDesc(0, USB_CLASS_HID, 1) \o HidDesc
               \o EpDesc(129, 3, 8, 10)
      [] name = "long" ->
           ConfigHeader(9, 300, 1) \o <<241, 255>> \o Zeros(239)
               \o <<9, 4, 0, 0, 1, USB_CLASS_HID>>
ConfigNames == {"storage", "keyboard", "kbd_out_first", "kbd_then_mouse",
                "two_kbd", "mouse", "hub", "zero_len", "len_one",
                "bad_header", "long"}

\* What config_buf and the stack after it hold where the transfer wrote
\* nothing: config_buf is not initialised, so this is what earlier calls
\* left there: zeros, or the descriptors of a keyboard followed by ones.
StaleMem(name, i) ==
    IF name = "zero" THEN 0
    ELSE IF i < Len(ConfigImage("keyboard"))
    THEN ConfigImage("keyboard")[i + 1]
    ELSE 1
StaleNames == {"zero", "keyboard"}

\* config_buf[i], for i past the buffer's end the stack behind it: cfg names
\* the descriptor the device sent, the bytes received and the stale memory.
Mem(cfg, i) ==
    IF i < cfg.got /\ i < Len(ConfigImage(cfg.img)) /\ i < CONFIG_BUF_SIZE
    THEN ConfigImage(cfg.img)[i + 1]
    ELSE StaleMem(cfg.stale, i)
\* config->bLength, config->wTotalLength, config->bConfigurationValue
ConfigLength(cfg) == Mem(cfg, 0)
TotalLength(cfg) == Mem(cfg, 2) + 256 * Mem(cfg, 3)
ConfigurationValue(cfg) == Mem(cfg, 5)

\* ----------------------------------------------------------- the registry
\* The check one record late.
RegistryFull_late(n) == n > MAX_USB_DEVICES

\* if (usb_state.num_devices >= MAX_USB_DEVICES) return -1;
RegistryFull(n) == n >= MAX_USB_DEVICES

\* usb_device_t as usb_enumerate_device_at fills it.
NewRecord(d, addr) ==
    [address |-> addr, speed |-> d.speed, max_packet_size |-> d.mps0,
     parent_hub |-> d.hub, parent_port |-> d.port, is_hub |-> 0,
     hub_ports |-> 0]

\* ---------------------------------------------------------- the locals
NoConfig == [img |-> "storage", got |-> 0, stale |-> "zero"]
\* The arguments and locals of a call, as the declarations initialise them.
NoDevice ==
    [hub |-> 0, port |-> 0, speed |-> 1, old_speed |-> 1, class |-> 0,
     mps0 |-> 0, new_addr |-> 0, cfg |-> NoConfig, offset |-> 0, is_hub |-> 0,
     found_keyboard |-> 0, keyboard_ep |-> 0, keyboard_mps |-> 8,
     keyboard_interval |-> 10, keyboard_interface |-> 0, dev |-> 0,
     set_protocol_ret |-> 0]
NoRequest == [req |-> "NONE", addr |-> 0, wValue |-> 0, wIndex |-> 0,
              ok |-> FALSE, hub |-> 0, port |-> 0]
Speeds == {0, 1, 2}

\* A control request of the running call goes out: to the address addr,
\* with the setup packet's wValue and wIndex, and succeeds or fails.
Issued(req, addr, wValue, wIndex, ok) ==
    last_req' = [req |-> req, addr |-> addr, wValue |-> wValue,
                 wIndex |-> wIndex, ok |-> ok, hub |-> dv.hub,
                 port |-> dv.port]

\* return v;
EnReturn(v) == en_pc' = "ret" /\ en_ret' = v

\* The counter advanced only for the first device.
NextAddress_same(a) == IF a = 0 THEN 1 ELSE a

\* int new_addr = ++usb_state.next_address;
NextAddress(a) == a + 1

\* ------------------------------------------------------------ the walk
\* The loop without the test for a sub-descriptor of length 0.
WalkEnds_no_zero(offset, total, len) ==
    \/ offset >= total
    \/ offset >= CONFIG_BUF_SIZE

\* while (offset < config->wTotalLength && offset < sizeof(config_buf))
\*     { len = config_buf[offset]; if (len == 0) break; ...
WalkEnds(offset, total, len) ==
    \/ offset >= total
    \/ offset >= CONFIG_BUF_SIZE
    \/ len = 0

\* The interface descriptor at offset.
WalkInterface(d) ==
    LET class == Mem(d.cfg, d.offset + 5)
        proto == Mem(d.cfg, d.offset + 7)
        num == Mem(d.cfg, d.offset + 2)
    IN  IF class = USB_CLASS_HUB THEN [d EXCEPT !.is_hub = 1]
        ELSE IF class = USB_CLASS_HID /\ proto = USB_HID_PROTOCOL_KEYBOARD
        THEN [d EXCEPT !.found_keyboard = 1, !.keyboard_interface = num]
        ELSE d

\* (ep->bmAttributes & 0x03) == 3 && (ep->bEndpointAddress & 0x80)
InterruptIn(addr, attr) == attr % 4 = 3 /\ (addr \div 128) % 2 = 1

\* The endpoint descriptor at offset.
WalkEndpoint(d) ==
    LET addr == Mem(d.cfg, d.offset + 2)
        attr == Mem(d.cfg, d.offset + 3)
    IN  IF InterruptIn(addr, attr)
        THEN [d EXCEPT !.keyboard_ep = addr % 16,
                       !.keyboard_mps = Mem(d.cfg, d.offset + 4)
                                        + 256 * Mem(d.cfg, d.offset + 5),
                       !.keyboard_interval = Mem(d.cfg, d.offset + 6)]
        ELSE d

\* else if (type == USB_DESC_ENDPOINT && found_keyboard && keyboard_ep == 0)
TakesEndpoint(d, type) ==
    type = USB_DESC_ENDPOINT /\ d.found_keyboard = 1 /\ d.keyboard_ep = 0

\* One turn of the loop body, and offset += len.
WalkStep(d) ==
    LET len == Mem(d.cfg, d.offset)
        type == Mem(d.cfg, d.offset + 1)
        seen == IF type = USB_DESC_INTERFACE THEN WalkInterface(d)
                ELSE IF TakesEndpoint(d, type) THEN WalkEndpoint(d)
                ELSE d
    IN  [seen EXCEPT !.offset = d.offset + len]

\* if (found_keyboard && keyboard_ep > 0)
KeyboardFound(d) == d.found_keyboard = 1 /\ d.keyboard_ep > 0

\* ------------------------------------------------------ the environment
\* Ports of a hub with very many ports.
WideHubPorts == 127

\* hub_desc.bNbrPorts: a byte.  The hubs below the root report up to
\* MaxHubPorts ports; the root may be a hub of WideHubPorts ports.
HubPortCounts(d) ==
    (0..MaxHubPorts) \cup (IF d.hub = 0 THEN {WideHubPorts} ELSE {})

\* The callers suspended.
Top == en_stack[Len(en_stack)]
Popped == SubSeq(en_stack, 1, Len(en_stack) - 1)
\* The running call is one for a port of a hub of very many ports.
Crowded == en_stack # <<>> /\ Top.kind = "hub" /\ Top.num_ports > MaxPorts

\* What the device at the default address answers to the first descriptor
\* read (bytes, bDeviceClass, bMaxPacketSize0) and to SET_ADDRESS.  The
\* devices on a hub of very many ports are all of one kind and refuse the
\* address, which keeps the registry and the state space small.
FirstReplies ==
    IF Crowded THEN {[n |-> DEVICE_DESC_MIN, class |-> 0, mps |-> 8]}
    ELSE [n : {DEVICE_DESC_MIN, DEVICE_DESC_SIZE}, class : {0, USB_CLASS_HUB},
          mps : {8, 64}]
FirstFails == IF Crowded THEN {} ELSE {-1, 0}
AddressReplies == IF Crowded THEN {FALSE} ELSE BOOLEAN

\* ------------------------------------------------------------ the steps
\* Entry, after the registry check: the locals, and the speed of the
\* default address.
EnterDevice(h, p, speed) ==
    /\ dv' = [NoDevice EXCEPT !.hub = h, !.port = p, !.speed = speed,
                              !.old_speed = device_speed]
    /\ device_speed' = speed
    /\ en_pc' = "desc8"

\* usb_enumerate_device: the root device.
usb_enumerate_device ==
    /\ en_pc = "idle"
    /\ next_address' = 0
    /\ num_devices' = 0
    /\ devices' = <<>>
    /\ usb_state' = [usb_state EXCEPT !.keyboard_addr = 0]
    /\ IF RegistryFull(0)
       THEN EnReturn(-1) /\ UNCHANGED <<dv, device_speed>>
       ELSE EnterDevice(0, 0, device_speed) /\ UNCHANGED en_ret
    /\ UNCHANGED <<en_stack, keyboard_ep, keyboard_mps, keyboard_interval,
                   last_req>>
    /\ UNCHANGED <<hubVars, outsideEnum>>

\* usb_get_device_descriptor(0, &desc) and if (ret < 8).
en_desc8 ==
    /\ en_pc = "desc8"
    /\ \/ \E n \in FirstFails :
           /\ Issued("GET_DEVICE_DESCRIPTOR", 0, 256, 0, n >= 0)
           /\ device_speed' = dv.old_speed
           /\ EnReturn(-1)
           /\ UNCHANGED dv
       \/ \E r \in FirstReplies :
           /\ Issued("GET_DEVICE_DESCRIPTOR", 0, 256, 0, TRUE)
           /\ dv' = [dv EXCEPT !.class = r.class, !.mps0 = r.mps]
           /\ en_pc' = "addr"
           /\ UNCHANGED <<en_ret, device_speed>>
    /\ UNCHANGED <<en_stack, next_address, num_devices, devices, usb_state,
                   keyboard_ep, keyboard_mps, keyboard_interval>>
    /\ UNCHANGED <<hubVars, outsideEnum>>

\* new_addr = ++next_address, usb_set_address(new_addr), and the record.
en_addr ==
    /\ en_pc = "addr"
    /\ next_address' = NextAddress(next_address)
    /\ \E ok \in AddressReplies :
        /\ Issued("SET_ADDRESS", 0, next_address', 0, ok)
        /\ dv' = [dv EXCEPT !.new_addr = next_address',
                            !.dev = IF ok THEN num_devices + 1 ELSE 0]
        /\ IF ok
           THEN /\ devices' = Append(devices, NewRecord(dv, next_address'))
                /\ num_devices' = num_devices + 1
                /\ en_pc' = "desc_full"
                /\ UNCHANGED <<en_ret, device_speed>>
           ELSE /\ device_speed' = dv.old_speed
                /\ EnReturn(-1)
                /\ UNCHANGED <<devices, num_devices>>
    /\ UNCHANGED <<en_stack, usb_state, keyboard_ep, keyboard_mps,
                   keyboard_interval>>
    /\ UNCHANGED <<hubVars, outsideEnum>>

\* usb_get_device_descriptor(new_addr, &desc) and if (ret < sizeof(desc)).
en_desc_full ==
    /\ en_pc = "desc_full"
    /\ \E n \in {-1, DEVICE_DESC_MIN, DEVICE_DESC_SIZE} :
        /\ Issued("GET_DEVICE_DESCRIPTOR", dv.new_addr, 256, 0, n >= 0)
        /\ IF n < DEVICE_DESC_SIZE
           THEN EnReturn(-1)
           ELSE en_pc' = "config" /\ UNCHANGED en_ret
    /\ UNCHANGED <<dv, en_stack, next_address, num_devices, devices,
                   device_speed, usb_state, keyboard_ep, keyboard_mps,
                   keyboard_interval>>
    /\ UNCHANGED <<hubVars, outsideEnum>>

\* What a device sends of its configuration descriptor and what the buffer
\* held before: all of the descriptor as far as the buffer takes it, or
\* the header alone, over zeros or over an earlier keyboard's descriptors.
\* A device of the hub class sends a hub's or a keyboard's descriptors.
ConfigReplies(d) ==
    LET all == { [img |-> i, got |-> CONFIG_BUF_SIZE, stale |-> "zero"] :
                   i \in ConfigNames }
                \cup { [img |-> "keyboard", got |-> CONFIG_DESC_MIN,
                        stale |-> s] : s \in StaleNames }
                \cup { [img |-> "long", got |-> CONFIG_BUF_SIZE,
                        stale |-> "keyboard"] }
    IN  IF d.class = USB_CLASS_HUB
        THEN { c \in all : c.img \in {"hub", "keyboard"} }
        ELSE all

\* usb_get_configuration_descriptor(new_addr, config_buf, 256), if (ret < 9),
\* and the locals of the walk.
en_config ==
    /\ en_pc = "config"
    /\ \/ /\ Issued("GET_CONFIG_DESCRIPTOR", dv.new_addr, 512, 0, FALSE)
          /\ EnReturn(-1)
          /\ UNCHANGED dv
       \/ \E cfg \in ConfigReplies(dv) :
           /\ Issued("GET_CONFIG_DESCRIPTOR", dv.new_addr, 512, 0, TRUE)
           /\ dv' = [dv EXCEPT !.cfg = cfg,
                               !.is_hub = IF dv.class = USB_CLASS_HUB
                                          THEN 1 ELSE 0,
                               !.offset = ConfigLength(cfg)]
           /\ en_pc' = "walk"
           /\ UNCHANGED en_ret
    /\ UNCHANGED <<en_stack, next_address, num_devices, devices,
                   device_speed, usb_state, keyboard_ep, keyboard_mps,
                   keyboard_interval>>
    /\ UNCHANGED <<hubVars, outsideEnum>>

\* One turn of the walk, or its end.
en_walk ==
    /\ en_pc = "walk"
    /\ IF WalkEnds(dv.offset, TotalLength(dv.cfg), Mem(dv.cfg, dv.offset))
       THEN en_pc' = "setcfg" /\ UNCHANGED dv
       ELSE dv' = WalkStep(dv) /\ UNCHANGED en_pc
    /\ UNCHANGED <<en_ret, en_stack, next_address, num_devices, devices,
                   device_speed, usb_state, keyboard_ep, keyboard_mps,
                   keyboard_interval, last_req>>
    /\ UNCHANGED <<hubVars, outsideEnum>>

\* usb_set_configuration(new_addr, config->bConfigurationValue)
en_setcfg ==
    /\ en_pc = "setcfg"
    /\ \E ok \in BOOLEAN :
        /\ Issued("SET_CONFIGURATION", dv.new_addr,
                  ConfigurationValue(dv.cfg), 0, ok)
        /\ IF ok
           THEN /\ en_pc' = IF dv.is_hub = 1 THEN "hub_desc" ELSE "kbd"
                /\ UNCHANGED en_ret
           ELSE EnReturn(-1)
    /\ UNCHANGED <<dv, en_stack, next_address, num_devices, devices,
                   device_speed, usb_state, keyboard_ep, keyboard_mps,
                   keyboard_interval>>
    /\ UNCHANGED <<hubVars, outsideEnum>>

\* usb_enumerate_hub(new_addr, n) is entered: the first loop test.
HubEntered(h, n) ==
    /\ hub_addr' = h
    /\ num_ports' = n
    /\ port' = 1
    /\ status' = {}
    /\ visited' = <<>>
    /\ port_reports' = <<>>
    /\ IF 1 <= n
       THEN hub_pc' = "power" /\ hub_ret' = -1
       ELSE hub_pc' = "done" /\ hub_ret' = 0
    /\ UNCHANGED enum_calls

\* if (is_hub): usb_get_hub_descriptor(new_addr, &hub_desc) and, with 7
\* bytes or more, usb_enumerate_hub(new_addr, hub_desc.bNbrPorts).
en_hub_desc ==
    /\ en_pc = "hub_desc"
    /\ \/ /\ \E ok \in BOOLEAN :
               Issued("GET_HUB_DESCRIPTOR", dv.new_addr, 10496, 0, ok)
          /\ devices' = [devices EXCEPT ![dv.dev].is_hub = 1]
          /\ en_pc' = "kbd"
          /\ UNCHANGED <<en_stack, hubVars>>
       \/ \E n \in HubPortCounts(dv) :
           /\ Issued("GET_HUB_DESCRIPTOR", dv.new_addr, 10496, 0, TRUE)
           /\ devices' = [devices EXCEPT ![dv.dev].is_hub = 1,
                                         ![dv.dev].hub_ports = n]
           /\ en_stack' = Append(en_stack, [kind |-> "dev", dv |-> dv])
           /\ en_pc' = "in_hub"
           /\ HubEntered(dv.new_addr, n)
    /\ UNCHANGED <<dv, en_ret, next_address, num_devices, device_speed,
                   usb_state, keyboard_ep, keyboard_mps, keyboard_interval>>
    /\ UNCHANGED outsideEnum

\* usb_enumerate_device_at(hub_addr, port, speed) from the port loop: the
\* registry check and the entry; the loop waits for the call's return.
hub_enum_call ==
    /\ hub_pc = "enum"
    /\ en_pc = "in_hub"
    /\ IF RegistryFull(num_devices)
       THEN /\ en_ret' = -1
            /\ HubContinue
            /\ UNCHANGED <<en_pc, dv, en_stack, device_speed>>
       ELSE /\ en_stack' = Append(en_stack,
                                  [kind |-> "hub", hub_addr |-> hub_addr,
                                   num_ports |-> num_ports, port |-> port,
                                   status |-> status, visited |-> visited])
            /\ EnterDevice(hub_addr, port, PortSpeed(status))
            /\ hub_pc' = "called"
            /\ UNCHANGED <<port, hub_ret, en_ret>>
    /\ UNCHANGED <<hub_addr, num_ports, status, enum_calls, port_reports,
                   visited>>
    /\ UNCHANGED <<next_address, num_devices, devices, usb_state,
                   keyboard_ep, keyboard_mps, keyboard_interval, last_req>>
    /\ UNCHANGED outsideEnum

\* usb_enumerate_device_at returns: to the port loop, which ignores the
\* result and goes on to the next port, or to usb_enumerate_device.
en_return ==
    /\ en_pc = "ret"
    /\ IF en_stack = <<>>
       THEN en_pc' = "done" /\ UNCHANGED <<en_stack, hubVars>>
       ELSE /\ en_stack' = Popped
            /\ en_pc' = "in_hub"
            /\ hub_addr' = Top.hub_addr
            /\ num_ports' = Top.num_ports
            /\ status' = Top.status
            /\ visited' = Top.visited
            /\ port' = PortAfter(Top.port)
            /\ IF PortAfter(Top.port) <= Top.num_ports
               THEN hub_pc' = "power" /\ hub_ret' = -1
               ELSE hub_pc' = "done" /\ hub_ret' = 0
            /\ UNCHANGED <<enum_calls, port_reports>>
    /\ dv' = NoDevice
    /\ UNCHANGED <<en_ret, next_address, num_devices, devices,
                   device_speed, usb_state, keyboard_ep, keyboard_mps,
                   keyboard_interval, last_req>>
    /\ UNCHANGED outsideEnum

\* usb_enumerate_hub returns to the device that called it.
hub_return ==
    /\ en_pc = "in_hub"
    /\ hub_pc = "done"
    /\ dv' = Top.dv
    /\ en_stack' = Popped
    /\ en_pc' = "kbd"
    /\ hub_pc' = "called"
    /\ hub_addr' = 0
    /\ num_ports' = 0
    /\ port' = 0
    /\ status' = {}
    /\ visited' = <<>>
    /\ UNCHANGED <<hub_ret, enum_calls, port_reports>>
    /\ UNCHANGED <<en_ret, next_address, num_devices, devices, device_speed,
                   usb_state, keyboard_ep, keyboard_mps, keyboard_interval,
                   last_req>>
    /\ UNCHANGED outsideEnum

\* if (found_keyboard && keyboard_ep > 0): the keyboard is recorded and
\* SET_PROTOCOL(Boot) goes to its interface, the result only logged;
\* otherwise return 0.
en_kbd ==
    /\ en_pc = "kbd"
    /\ IF KeyboardFound(dv)
       THEN /\ usb_state' = [usb_state EXCEPT !.keyboard_addr = dv.new_addr]
            /\ keyboard_ep' = dv.keyboard_ep
            /\ keyboard_mps' = dv.keyboard_mps
            /\ keyboard_interval' = dv.keyboard_interval
            /\ \E ok \in BOOLEAN :
                /\ Issued("SET_PROTOCOL", dv.new_addr, 0,
                          dv.keyboard_interface, ok)
                /\ dv' = [dv EXCEPT !.set_protocol_ret =
                                        IF ok THEN 0 ELSE -1]
            /\ en_pc' = "set_idle"
            /\ UNCHANGED en_ret
       ELSE /\ EnReturn(0)
            /\ UNCHANGED <<dv, usb_state, keyboard_ep, keyboard_mps,
                           keyboard_interval, last_req>>
    /\ UNCHANGED <<en_stack, next_address, num_devices, devices,
                   device_speed>>
    /\ UNCHANGED <<hubVars, outsideEnum>>

\* SET_IDLE's failure taken for the call's.
en_set_idle_strict ==
    /\ en_pc = "set_idle"
    /\ \E ok \in BOOLEAN :
        /\ Issued("SET_IDLE", dv.new_addr, 0, dv.keyboard_interface, ok)
        /\ EnReturn(IF ok THEN 0 ELSE -1)
    /\ UNCHANGED <<dv, en_stack, next_address, num_devices, devices,
                   device_speed, usb_state, keyboard_ep, keyboard_mps,
                   keyboard_interval>>
    /\ UNCHANGED <<hubVars, outsideEnum>>

\* SET_IDLE(0) to the keyboard's interface, the result only logged, and
\* return 0.
en_set_idle ==
    /\ en_pc = "set_idle"
    /\ \E ok \in BOOLEAN :
        Issued("SET_IDLE", dv.new_addr, 0, dv.keyboard_interface, ok)
    /\ EnReturn(0)
    /\ UNCHANGED <<dv, en_stack, next_address, num_devices, devices,
                   device_speed, usb_state, keyboard_ep, keyboard_mps,
                   keyboard_interval>>
    /\ UNCHANGED <<hubVars, outsideEnum>>

usb_enumerate_device_at ==
    \/ en_desc8
    \/ en_addr
    \/ en_desc_full
    \/ en_config
    \/ en_walk
    \/ en_setcfg
    \/ en_hub_desc
    \/ en_kbd
    \/ en_set_idle
    \/ en_return

\* The port loop of a hub found during enumeration.
usb_enumerate_hub_below ==
    \/ hub_power
    \/ hub_status1
    \/ hub_reset
    \/ hub_status2
    \/ hub_clear
    \/ hub_enum_call
    \/ hub_return

EnumInit ==
    /\ en_pc = "idle"
    /\ dv = NoDevice
    /\ en_ret = 0
    /\ en_stack = <<>>
    /\ next_address = 0
    /\ num_devices = 0
    /\ devices = <<>>
    /\ device_speed = 1
    /\ keyboard_ep = 0
    /\ keyboard_mps = 0
    /\ keyboard_interval = 0
    /\ last_req = NoRequest

\* ============================================================ request builders
\* The functions of usb_enum.c that fill a usb_setup_packet_t and hand it to
\* usb_control_transfer, which copies its 8 bytes to the DMA buffer.  The
\* fields hold the initialiser's value cut to the field's width; the packet
\* is the standard one: two bytes, then three 16-bit words, low byte first.
USB_REQ_GET_PORT_STATUS == 0
USB_REQ_CLEAR_PORT_FEATURE == 1
USB_REQ_SET_PORT_FEATURE == 3
USB_REQ_SET_ADDRESS == 5
USB_REQ_GET_DESCRIPTOR == 6
USB_REQ_SET_CONFIGURATION == 9
USB_HID_SET_IDLE == 10
USB_HID_SET_PROTOCOL == 11
USB_HID_PROTOCOL_BOOT == 0
USB_DESC_DEVICE == 1
USB_DESC_CONFIGURATION == 2
USB_DESC_HUB == 41
PORT_STATUS_SIZE == 4

outsideReq == <<ringVars, ctlVars, kbdVars, hubVars, enumVars, mainVars>>

\* The arguments the callers pass: device addresses from the address counter
\* (0 for the default address), a byte-sized configuration value, port and
\* interface number, the port features of usb_enumerate_hub, buffer sizes.
ReqAddrs == {0, 1, 2, 127, 128}
ReqConfigs == {0, 1, 255}
ReqPorts == {1, 2, 127, 255}
ReqFeatures == {4, 8, 20}
ReqInterfaces == {0, 1, 255}
ReqLens == {8, 9, 255, 256, 512}
\* sizeof(usb_hub_descriptor_t), declared in a header.
HubDescSizes == {7, 9, 71}

\* A request: the values of the initialiser and the data length and
\* direction of the usb_control_transfer call.
Request(type, req, value, index, length, len, in) ==
    [data_len |-> len, data_in |-> in, wValue |-> value, wIndex |-> index,
     bmRequestType |-> type, bRequest |-> req, wLength |-> length]

GetDeviceDescriptor(addr) ==
    Request(128, USB_REQ_GET_DESCRIPTOR, USB_DESC_DEVICE * 256 + 0, 0,
            DEVICE_DESC_SIZE, DEVICE_DESC_SIZE, 1)

SetAddress(addr) ==
    Request(0, USB_REQ_SET_ADDRESS, addr, 0, 0, 0, 0)

SetConfiguration(addr, config) ==
    Request(0, USB_REQ_SET_CONFIGURATION, config, 0, 0, 0, 0)

GetConfigurationDescriptor_short(addr, len) ==
    Request(128, USB_REQ_GET_DESCRIPTOR, USB_DESC_CONFIGURATION * 256 + 0, 0,
            CONFIG_DESC_MIN, len, 1)

GetConfigurationDescriptor(addr, len) ==
    Request(128, USB_REQ_GET_DESCRIPTOR, USB_DESC_CONFIGURATION * 256 + 0, 0,
            len, len, 1)

GetHubDescriptor(addr, size) ==
    Request(160, USB_REQ_GET_DESCRIPTOR, USB_DESC_HUB * 256 + 0, 0,
            size, size, 1)

GetPortStatus(hub, p) ==
    Request(163, USB_REQ_GET_PORT_STATUS, 0, p, PORT_STATUS_SIZE,
            PORT_STATUS_SIZE, 1)

SetPortFeature(hub, p, feature) ==
    Request(35, USB_REQ_SET_PORT_FEATURE, feature, p, 0, 0, 0)

ClearPortFeature(hub, p, feature) ==
    Request(35, USB_REQ_CLEAR_PORT_FEATURE, feature, p, 0, 0, 0)

HidSetProtocol(addr, interface) ==
    Request(33, USB_HID_SET_PROTOCOL, USB_HID_PROTOCOL_BOOT, interface,
            0, 0, 0)

HidSetIdle(addr, interface) ==
    Request(33, USB_HID_SET_IDLE, 0, interface, 0, 0, 0)

\* The struct in memory: uint8_t, uint8_t and three uint16_t, packed, on a
\* little-endian machine; memcpy(dma_buffer, setup, 8) copies these bytes.
LowByte(v) == v % 256
HighByte(v) == (v \div 256) % 256
SetupBytes(r) ==
    <<LowByte(r.bmRequestType), LowByte(r.bRequest),
      LowByte(r.wValue), HighByte(r.wValue),
      LowByte(r.wIndex), HighByte(r.wIndex),
      LowByte(r.wLength), HighByte(r.wLength)>>

NoBytes == <<0, 0, 0, 0, 0, 0, 0, 0>>

\* A builder is called: the request and the bytes of its SETUP stage.
Build(r) ==
    /\ rq_want' = r
    /\ rq_bytes' = SetupBytes(r)
    /\ UNCHANGED outsideReq

usb_get_device_descriptor == \E a \in ReqAddrs : Build(GetDeviceDescriptor(a))
usb_set_address == \E a \in ReqAddrs : Build(SetAddress(a))
usb_set_configuration ==
    \E a \in ReqAddrs, c \in ReqConfigs : Build(SetConfiguration(a, c))
usb_get_configuration_descriptor ==
    \E a \in ReqAddrs, n \in ReqLens :
        Build(GetConfigurationDescriptor(a, n))
usb_get_hub_descriptor ==
    \E a \in ReqAddrs, n \in HubDescSizes : Build(GetHubDescriptor(a, n))
usb_get_port_status ==
    \E h \in ReqAddrs, p \in ReqPorts : Build(GetPortStatus(h, p))
usb_set_port_feature ==
    \E h \in ReqAddrs, p \in ReqPorts, f \in ReqFeatures :
        Build(SetPortFeature(h, p, f))
usb_clear_port_feature ==
    \E h \in ReqAddrs, p \in ReqPorts, f \in ReqFeatures :
        Build(ClearPortFeature(h, p, f))
hid_set_protocol ==
    \E a \in ReqAddrs, i \in ReqInterfaces : Build(HidSetProtocol(a, i))
hid_set_idle ==
    \E a \in ReqAddrs, i \in ReqInterfaces : Build(HidSetIdle(a, i))

ReqInit ==
    /\ rq_want = Request(0, 0, 0, 0, 0, 0, 0)
    /\ rq_bytes = NoBytes

vars == <<ringVars, ctlVars, kbdVars, hubVars, enumVars, mainVars, reqVars>>
MainInit == st_pc = "idle"
Init ==
    RingInit /\ CtlInit /\ KbdInit /\ HubInit /\ EnumInit /\ MainInit /\ ReqInit

\* The keyboard path: the ISR against the polling main loop.
Next == usb_irq_handler \/ hal_usb_keyboard_poll
Spec == Init /\ [][Next]_vars

\* The control path: enumeration runs control transfers on channel 0 before a
\* keyboard is recorded (usb_enumerate_device clears keyboard_addr first).
InitCtl ==
    /\ Init
    /\ usb_state = [initialized |-> 1, device_connected |-> 1,
                    keyboard_addr |-> 0]
NextCtl ==
    \/ usb_control_transfer
    \/ usb_wait_for_dma_complete
    \/ HwRaise
    \/ HwReceive
SpecCtl == InitCtl /\ [][NextCtl]_vars

\* The keyboard path at run time: the ISR and the tick handler against the
\* controller, after enumeration (with or without a keyboard found).
InitKbd ==
    /\ Init
    /\ usb_state \in [initialized : {1}, device_connected : {1},
                      keyboard_addr : {0, KBD_ADDR}]
NextKbd ==
    \/ usb_irq_handler_hw
    \/ hal_usb_keyboard_tick
    \/ HwKbd
    \/ HwPort
SpecKbd == InitKbd /\ [][NextKbd]_vars

\* Boot, then run time: enumeration's control transfers run while no
\* keyboard is recorded and the port is untouched; the ISR and the tick
\* handler run once a keyboard is recorded.
Enumerating == usb_state.keyboard_addr = 0 /\ port_events = 0
NextWaits ==
    \/ Enumerating /\ NextCtl
    \/ ~Enumerating /\ NextKbd
SpecWaits == InitKbd /\ [][NextWaits]_vars

\* Hub enumeration.
NextHub == usb_enumerate_hub
SpecHub == InitCtl /\ [][NextHub]_vars

\* The main loop starting the polling against the handlers, with a keyboard
\* that has nothing to report.
NextStart ==
    \/ usb_start_keyboard_transfer
    \/ usb_irq_handler_hw
    \/ hal_usb_keyboard_tick
    \/ HwPort
SpecStart == InitKbd /\ [][NextStart]_vars

\* The same with a keyboard that answers its first poll.
NextPoll ==
    \/ usb_start_keyboard_transfer
    \/ usb_irq_handler_hw
    \/ hal_usb_keyboard_tick
    \/ kbd_events = 0 /\ HwKbd
SpecPoll == InitKbd /\ [][NextPoll]_vars

\* A control transfer of the main loop while the keyboard channel is polled:
\* the main loop starts the polling, then runs one request without a data
\* stage (as SET_PROTOCOL or SET_IDLE); the handler preempts it between its
\* steps, and the keyboard answers its poll once.
StatusOnly == data_null' = TRUE /\ data_len' = 0 /\ data_in' = 0
NextOwn ==
    \/ ct_pc = "idle" /\ usb_start_keyboard_transfer
    \/ /\ st_pc = "idle"
       /\ ct_pc = "idle"
       /\ HCCHAR1.chena = 1
       /\ ctl_call
       /\ StatusOnly
    \/ ctl_after_setup
    \/ ctl_after_status
    \/ usb_wait_for_dma_complete
    \/ HwRaise
    \/ usb_irq_handler_hw
    \/ kbd_events = 0 /\ HwKbd
SpecOwn == InitKbd /\ [][NextOwn]_vars

\* The keyboard path with a single port event: whatever happens to the
\* port happens once, and the port is left alone afterwards.
NextLost ==
    \/ usb_irq_handler_hw
    \/ hal_usb_keyboard_tick
    \/ HwKbd
    \/ port_events = 0 /\ HwPort
SpecLost == InitKbd /\ [][NextLost]_vars

\* The main loop against the handlers after a port event: the handlers poll
\* the keyboard, the port changes once, and from then on the main loop, one
\* thread, either starts the polling or polls the ring.
GoneTicks == 7
NextGone ==
    \/ /\ port_events > 0
       /\ pc \in {"idle", "ret"}
       /\ usb_start_keyboard_transfer
    \/ /\ port_events > 0
       /\ st_pc = "idle"
       /\ hal_usb_keyboard_poll
    \/ usb_irq_handler_hw
    \/ tick_counter < GoneTicks /\ hal_usb_keyboard_tick
    \/ kbd_events = 0 /\ HwKbd
    \/ port_events = 0 /\ HwPort
SpecGone == InitKbd /\ [][NextGone]_vars

\* The request builders, each with the arguments its callers pass.
NextReq ==
    \/ usb_get_device_descriptor
    \/ usb_set_address
    \/ usb_set_configuration
    \/ usb_get_configuration_descriptor
    \/ usb_get_hub_descriptor
    \/ usb_get_port_status
    \/ usb_set_port_feature
    \/ usb_clear_port_feature
    \/ hid_set_protocol
    \/ hid_set_idle
SpecReq == Init /\ [][NextReq]_vars

\* Enumeration at boot: the root device and the hubs below it.
NextEnum ==
    \/ usb_enumerate_device
    \/ usb_enumerate_device_at
    \/ usb_enumerate_hub_below
SpecEnum == InitCtl /\ [][NextEnum]_vars
\* ======================================================= ring properties
\* Reports queued: stored by a push and not yet removed by a pop.
Count(r) == (r.head - r.tail + KBD_RING_SIZE) % KBD_RING_SIZE
\* The most reports the ring holds: one slot stays free, because a push is
\* refused when (head + 1) % KBD_RING_SIZE == tail.
Capacity == KBD_RING_SIZE - 1

IsrStep == npush' = npush + 1 /\ pc' = pc /\ npop' = npop
PopAdvanceStep == pc = "advance" /\ pc' = "out" /\ npush' = npush

\* head has one writer, the push in the ISR; tail has one writer, the tail
\* update of the pop in the main loop.
SingleWriter ==
    /\ kbd_ring'.head # kbd_ring.head => IsrStep
    /\ kbd_ring'.tail # kbd_ring.tail => PopAdvanceStep

\* While the pop copies out of reports[tail], no step writes that slot.
SlotBeingReadKept ==
    pc = "copy" =>
        kbd_ring'.reports[kbd_ring.tail] = kbd_ring.reports[kbd_ring.tail]

\* A completed pop holds, byte for byte, a report a push stored, and no
\* report is lost or handed out twice: pops and queued reports add up to
\* the reports stored.
PoppedWasAccepted ==
    /\ pc = "out" =>
          \E k \in 1..Len(accepted) : ring_report = Report(accepted[k])
    /\ npop + Count(kbd_ring) = Len(accepted)
    /\ \A j, k \in 1..Len(accepted) : j < k => accepted[j] < accepted[k]

\* C1: single-producer/single-consumer safety.  Whatever the points at
\* which pushes in the ISR preempt hal_usb_keyboard_poll, head is written
\* only by the push and tail only by the pop, every popped report is byte
\* for byte a report a push accepted, accepted reports are neither lost nor
\* duplicated, and no push writes the slot a pop is copying from.
C1_SpscSafety ==
    /\ []PoppedWasAccepted
    /\ [][SingleWriter /\ SlotBeingReadKept]_vars

\* A pop that was preempted by at least two accepted pushes after the poll
\* was entered, and completed its copy with more reports still queued.
C1_Witness ==
    /\ pc = "out"
    /\ npush >= entry_npush + 2
    /\ Len(accepted) >= npop + 2
    /\ ring_report = Report(accepted[npop])

\* C2: FIFO order.  The k-th completed pop returns, byte for byte, the k-th
\* report stored, for every interleaving of pushes and pops; and a pop
\* reports empty exactly when every stored report has been popped, so after
\* N pushes into an empty ring the (N+1)-th pop reports empty.
C2_FifoOrder ==
    /\ [](pc = "out" =>
            /\ npop \in 1..Len(accepted)
            /\ ring_report = Report(accepted[npop]))
    /\ [][pc = "pop" /\ pc' # "pop" =>
            /\ (popret' = 0) <=> (npop = Len(accepted))
            /\ (pc' = "copy") <=> (npop < Len(accepted))]_vars

\* Capacity reports were pushed, all were popped, and the next pop reported
\* empty.
C2_Witness ==
    /\ pc = "ret"
    /\ popret = 0
    /\ Len(accepted) = Capacity
    /\ npop = Capacity

\* The queued slots, from tail on, hold the stored and not yet popped
\* reports in the order they were stored.
QueueHoldsUnpopped ==
    \A i \in 0..Count(kbd_ring) - 1 :
        /\ npop + 1 + i <= Len(accepted)
        /\ kbd_ring.reports[(kbd_ring.tail + i) % KBD_RING_SIZE]
              = Report(accepted[npop + 1 + i])

PollErrorLeavesRing == pc = "ret" /\ ret = -1 => popret = -1
PollGuardFailed == pc = "ret" /\ popret = -1 => ret = -1
PollEmptyReturnsZero == pc = "ret" /\ popret = 0 => ret = 0
PollDataReturnsLen ==
    pc = "ret" /\ popret = 1 =>
        /\ ret = Min(report_len, REPORT_BYTES)
        /\ \A i \in Bytes :
              report[i] = IF i < ret THEN accepted[npop] ELSE -1
PollZeroOnlyWhenEmpty == pc = "ret" /\ ret = 0 => popret = 0

\* The parts of C4 the code keeps: -1 without touching the ring when a test
\* fails, 0 when the ring is empty, otherwise the oldest report is removed
\* and min(report_len, 8) bytes of it are returned.
PollReturnsKept ==
    /\ PollErrorLeavesRing
    /\ PollGuardFailed
    /\ PollEmptyReturnsZero
    /\ PollDataReturnsLen

\* C4: hal_usb_keyboard_poll returns -1 when a test fails (ring unchanged),
\* 0 when the ring is empty (ring unchanged), otherwise removes the oldest
\* report and returns min(report_len, 8); and it returns 0 only when no
\* report was available.
C4_PollReturns == PollReturnsKept /\ PollZeroOnlyWhenEmpty

\* ========================================== control-transfer properties
\* The request has a data stage: a length and a buffer.
DataPresent == data_len > 0 /\ ~data_null
\* The request is refused after SETUP: its data do not fit the DMA buffer.
Oversize == DataPresent /\ data_len > DMA_BUFFER_MAX
StagesArmed == [i \in 1..Len(arms) |-> arms[i].stage]
\* The retry budget of the stage in hand.
Budget(st) == IF st = "DATA" THEN 10 ELSE 5
\* A poll of usb_wait_for_dma_complete, as opposed to a controller step.
PollStep ==
    /\ ct_pc = "wait"
    /\ ct_pc' # "wait" \/ timeout' # timeout \/ retry' # retry
OncePerStage == rearms = 0 /\ ~rearmed_before
ExpectedStages ==
    IF DataPresent THEN <<"SETUP", "DATA", "STATUS">>
    ELSE <<"SETUP", "STATUS">>

\* A stage is armed only from a wait that returned success, and the stages
\* armed are SETUP, then DATA if present, then STATUS.
ArmedInOrder ==
    /\ arms' # arms /\ Len(arms') > 1 =>
          /\ ct_pc = "after_wait" /\ wait_ret = 0
          /\ arms' = Append(arms, arms'[Len(arms')])
    /\ \E n \in 0..Len(ExpectedStages) :
          StagesArmed' = SubSeq(ExpectedStages, 1, n)

\* C5 as stated: when every stage's first poll reads transfer-complete the
\* transfer succeeds, having enabled the channel once per stage: SETUP,
\* STATUS without data, SETUP, DATA, STATUS with data.
C5_PromptStages ==
    ct_pc = "done" /\ prompt =>
        /\ ct_ret >= 0
        /\ OncePerStage
        /\ StagesArmed = ExpectedStages

\* C5, amended: the same, unless the data do not fit the 512-byte DMA
\* buffer: then SETUP alone is armed, once, and the transfer fails.  In
\* every run a stage is armed only after the stage before it succeeded.
C5_PromptStagesFitting ==
    /\ [](ct_pc = "done" /\ prompt =>
            /\ OncePerStage
            /\ IF Oversize
               THEN ct_ret < 0 /\ StagesArmed = <<"SETUP">>
               ELSE ct_ret >= 0 /\ StagesArmed = ExpectedStages)
    /\ [][ArmedInOrder]_vars

\* A transfer with a data stage that completed in three arm cycles.
C5_Witness ==
    /\ ct_pc = "done"
    /\ prompt
    /\ ct_ret >= 0
    /\ StagesArmed = <<"SETUP", "DATA", "STATUS">>
    /\ OncePerStage

WaitSucceeds == ct_pc' = "after_wait" /\ wait_ret' = 0
WaitFails == ct_pc' = "after_wait" /\ wait_ret' = -1
\* One unit of the budget is used; the channel is enabled again if a unit
\* is left, and the wait fails if none is.
WaitRetries ==
    /\ retry' = retry + 1
    /\ IF retry + 1 < max_retries
       THEN /\ ct_pc' = "wait"
            /\ HCCHAR0'.chena = 1
            /\ rearms' = rearms + 1
       ELSE WaitFails /\ rearms' = rearms

\* C6: completion-code precedence.  For every combination of the eight
\* status bits a poll reads: transfer-complete is success; else halted with
\* ACK is success; else halted with NAK is a retry; else any of stall,
\* transaction error, babble, AHB error is failure at once.
C6_Precedence ==
    [][PollStep =>
        IF "XFERCOMPL" \in HCINT0 THEN WaitSucceeds
        ELSE IF {"CHHLTD", "ACK"} \subseteq HCINT0 THEN WaitSucceeds
        ELSE IF {"CHHLTD", "NAK"} \subseteq HCINT0 THEN WaitRetries
        ELSE IF HCINT0 \cap ErrorBits # {}
             THEN WaitFails /\ rearms' = rearms /\ retry' = retry
        ELSE TRUE]_vars

\* After one NAK retry, a poll is about to read halted with NAK and two
\* error bits, which the precedence makes a retry.
C6_Witness ==
    /\ ct_pc = "wait"
    /\ HCINT0 = {"CHHLTD", "NAK", "STALL", "XACTERR"}
    /\ naks = 1
    /\ rearms = 1
    /\ retry = 1

\* A poll that reads halted with NAK and neither transfer-complete nor ACK,
\* in a stage whose budget went to NAKs only so far.
NakOnlyPoll ==
    /\ PollStep
    /\ {"CHHLTD", "NAK"} \subseteq HCINT0
    /\ HCINT0 \cap {"XFERCOMPL", "ACK"} = {}
    /\ retry = naks

NakBudgetKept ==
    /\ ct_pc \in {"wait", "after_wait"} =>
          /\ max_retries = Budget(stage)
          /\ naks <= Budget(stage)
    /\ ct_pc = "after_wait" /\ wait_ret = 0 /\ retry = naks =>
          /\ rearms = naks
          /\ naks < Budget(stage)
    /\ ct_pc = "after_wait" /\ naks = Budget(stage) =>
          /\ wait_ret < 0
          /\ rearms = Budget(stage) - 1
          /\ HCCHAR0.chena = 0

\* C7: NAK retry budget.  With a budget of 5 for SETUP and STATUS and 10
\* for DATA, the k-th halted+NAK completion in a row re-arms the channel
\* and keeps the stage waiting while k is below the budget, so a success
\* after k NAKs ends the stage successfully after exactly k re-arms; the
\* NAK that uses the budget up fails the stage with a negative result and
\* leaves the channel disabled, not re-armed.
C7_NakBudget ==
    /\ []NakBudgetKept
    /\ [][NakOnlyPoll =>
            /\ naks' = naks + 1
            /\ IF naks + 1 < Budget(stage)
               THEN /\ ct_pc' = "wait"
                    /\ rearms' = rearms + 1
                    /\ HCCHAR0'.chena = 1
               ELSE /\ WaitFails
                    /\ rearms' = rearms
                    /\ HCCHAR0'.chena = 0]_vars

\* SETUP succeeded after 4 NAKs and 4 re-arms.
C7_Witness ==
    /\ ct_pc = "after_wait"
    /\ stage = "SETUP"
    /\ wait_ret = 0
    /\ naks = 4
    /\ retry = 4
    /\ rearms = 4

\* C8: protocol errors are fatal.  A poll that reads stall, transaction
\* error, babble or AHB error, and none of transfer-complete, ACK, NAK,
\* ends the wait with an error without enabling the channel, and
\* usb_control_transfer then returns a negative code without arming
\* another stage.
C8_ErrorsFatal ==
    [][/\ PollStep /\ HCINT0 \cap ErrorBits # {}
          /\ HCINT0 \cap {"XFERCOMPL", "ACK", "NAK"} = {} =>
              /\ WaitFails
              /\ rearms' = rearms /\ arms' = arms
              /\ HCCHAR0' = HCCHAR0
       /\ ct_pc = "after_wait" /\ wait_ret < 0 =>
              /\ ct_pc' = "done" /\ ct_ret' < 0
              /\ rearms' = rearms /\ arms' = arms
              /\ HCCHAR0' = HCCHAR0]_vars

\* SETUP failed on its first poll (no NAK, no poll without status before
\* it): the transfer returned -1 with SETUP armed once and nothing else.
C8_Witness ==
    /\ ct_pc = "done"
    /\ ct_ret = -1
    /\ arms = <<[stage |-> "SETUP", in |-> 0]>>
    /\ rearms = 0
    /\ naks = 0
    /\ retry = 0
    /\ timeout = PollBudget

\* C9: the STATUS stage is armed opposite to the DATA stage that ran, and
\* IN when no DATA stage ran.
C9_StatusDirection ==
    stage = "STATUS" =>
        arms[Len(arms)].in =
            IF \E i \in 1..Len(arms) : arms[i].stage = "DATA"
            THEN 1 - arms[Len(arms) - 1].in
            ELSE 1

\* What a successful transfer returns: the bytes of the DATA stage.
ReturnIsDataBytes ==
    ct_pc = "done" /\ ct_ret >= 0 =>
        /\ 0 <= ct_ret /\ ct_ret <= (IF data_len > 0 THEN data_len ELSE 0)
        /\ IF "DATA" \notin {arms[i].stage : i \in 1..Len(arms)}
           THEN ct_ret = 0 /\ copied = 0
           ELSE IF data_in = 0
           THEN ct_ret = data_len /\ copied = 0
           ELSE ct_ret = hw_received /\ copied = hw_received

\* C10 as stated: the result is non-negative exactly when every armed stage
\* succeeded, and is then the bytes moved in the DATA stage.
C10_ReturnValue ==
    /\ ct_pc = "done" => (ct_ret >= 0 <=> ~failed)
    /\ ReturnIsDataBytes

\* C10, amended: the result is non-negative exactly when every armed stage
\* succeeded and the data fit the DMA buffer (an oversize request returns a
\* negative code after a successful SETUP).
C10_ReturnValueFitting ==
    /\ ct_pc = "done" => (ct_ret >= 0 <=> (~failed /\ ~Oversize))
    /\ ct_pc = "done" /\ ct_ret >= 0 => arms[Len(arms)].stage = "STATUS"
    /\ ReturnIsDataBytes

\* A short IN transfer: 3 of 8 bytes received, copied and returned.
C10_Witness ==
    /\ ct_pc = "done"
    /\ data_in = 1
    /\ data_len = 8
    /\ ct_ret = 3
    /\ copied = 3

\* ================================================== bounded hardware waits
\* Polls usb_wait_for_dma_complete can still make: the passes left after
\* this one, each of PollBudget polls, and the polls left in this pass.
PollsLeft == (max_retries - retry - 1) * PollBudget + timeout
\* The same for a whole control transfer: the stages not yet armed count as
\* a full wait each.
StagesLeft == IF stage = "SETUP" THEN 2 ELSE IF stage = "DATA" THEN 1 ELSE 0
FullWait == DATA_RETRIES * PollBudget + 2
StepsLeft ==
    IF ct_pc \in {"idle", "done"} THEN 0
    ELSE StagesLeft * FullWait + (IF ct_pc = "wait" THEN PollsLeft + 1 ELSE 1)
\* A step of usb_control_transfer or of its wait, as opposed to a controller
\* step, in a transfer under way.
CtlStep ==
    /\ ct_pc \notin {"idle", "done"}
    /\ <<ct_pc, stage, retry, timeout>>' # <<ct_pc, stage, retry, timeout>>
\* Enables of channel 0 in the stage in hand, and the stages armed.
ArmCyclesBounded ==
    /\ Len(arms) <= 3
    /\ \A i, j \in 1..Len(arms) : i # j => arms[i].stage # arms[j].stage
    /\ ct_pc \in {"wait", "after_wait"} => 1 + rearms <= Budget(stage)
WaitBounded ==
    ct_pc = "wait" =>
        /\ max_retries = Budget(stage)
        /\ retry \in 0..max_retries - 1
        /\ timeout \in 1..PollBudget
        /\ PollsLeft \in 1..max_retries * PollBudget
HaltWaitBounded ==
    kt_pc = "halt_wait" => halt_i \in 0..HaltPollBudget - 1
HaltPollStep == kt_pc = "halt_wait" /\ <<kt_pc, halt_i>>' # <<kt_pc, halt_i>>

KbdRecorded ==
    /\ usb_state.initialized # 0
    /\ usb_state.device_connected # 0
    /\ usb_state.keyboard_addr # 0
Polling == KbdRecorded /\ port_reset_pending = 0
\* A call of hal_usb_keyboard_tick, and the step that ends one.
TickCall == kt_pc = "idle" /\ tick_counter' = tick_counter + 1
TickReturn ==
    \/ TickCall /\ kt_pc' = "idle"
    \/ kt_pc = "halt_wait" /\ kt_pc' = "idle"
IsrRun == debug_stats'.irq_count = debug_stats.irq_count + 1
\* The handler that ran last enabled channel 1.
Armed == \E i \in 1..Len(trace) : trace[i].op = "arm"
\* Channel 1 was armed by the handler that ran last, at the current tick.
ArmedNow ==
    /\ Armed
    /\ HCCHAR1.chena = 1
    /\ kbd_transfer_pending = 1
    /\ kbd_last_transfer_tick = tick_counter
\* Ticks since the transfer in hand was armed, at the tick being handled.
PendingFor == tick_counter' - kbd_last_transfer_tick

WatchdogWaits ==
    TickCall /\ Polling /\ kbd_transfer_pending = 1
             /\ PendingFor \in 1..WATCHDOG_TICKS - 1
        => /\ debug_stats' = debug_stats
           /\ HCCHAR1' = HCCHAR1
           /\ kbd_last_transfer_tick' = kbd_last_transfer_tick
           /\ kbd_transfer_pending' = 1
WatchdogKicks ==
    TickCall /\ Polling /\ kbd_transfer_pending = 1
             /\ PendingFor = WATCHDOG_TICKS
        => debug_stats'.watchdog_kicks = debug_stats.watchdog_kicks + 1
WatchdogRearms ==
    TickReturn /\ debug_stats'.watchdog_kicks > 0
               /\ (kt_pc = "halt_wait"
                   \/ debug_stats'.watchdog_kicks # debug_stats.watchdog_kicks)
        => ArmedNow'
KicksOnlyWhenDue ==
    debug_stats'.watchdog_kicks # debug_stats.watchdog_kicks
        => /\ TickCall
           /\ Polling
           /\ kbd_transfer_pending = 1
           /\ PendingFor >= WATCHDOG_TICKS
           /\ debug_stats'.watchdog_kicks = debug_stats.watchdog_kicks + 1

\* C12: stuck-transfer watchdog timing.  With a keyboard recorded, the
\* device connected and no port recovery in progress, a transfer armed at
\* tick T whose completion no interrupt handled is left alone by the ticks
\* T+1..T+4; the tick T+5 counts one watchdog kick and has re-armed the
\* channel when it returns; and a kick is counted for no transfer that was
\* pending for fewer than 5 ticks.
C12_WatchdogTiming ==
    [][WatchdogWaits /\ WatchdogKicks /\ WatchdogRearms
           /\ KicksOnlyWhenDue]_vars


\* Channel 1 is enabled, no handler runs and no interrupt is asserted, yet no
\* transfer counts as pending: the watchdog (which tests the pending flag)
\* and the idle fallback (which tests the channel disabled) both pass it by.
Hung ==
    /\ Polling
    /\ kt_pc = "idle"
    /\ Gintsts = {}
    /\ HCCHAR1.chena = 1
    /\ kbd_transfer_pending = 0
\* With the controller silent, ticks leave a hung channel as it is.
HungStaysHung ==
    [][Hung /\ TickCall =>
           /\ Hung'
           /\ HCCHAR1' = HCCHAR1
           /\ debug_stats' = debug_stats
           /\ trace' = <<>>]_vars

\* C13: a hung keyboard channel is always recovered.  With a keyboard
\* recorded, the device connected and no port recovery in progress, an
\* enabled channel 1 on which the controller raises nothing more is counted
\* as a pending transfer, so that the watchdog force-restarts it on a later
\* tick: the channel is never enabled with kbd_transfer_pending 0, out of
\* the reach of both the watchdog and the idle fallback.
C13_HungChannelRecovered == ~Hung


\* The interrupt handler runs on a channel-1 interrupt and finds a keyboard
\* recorded when it reaches the channel.
KbdIsrRun ==
    /\ IsrRun
    /\ "HCHINT" \in Gintsts
    /\ usb_state'.keyboard_addr # 0
\* On a channel the controller has halted the handler does re-arm.
IsrRearmsHalted ==
    [][KbdIsrRun /\ HCCHAR1.chena = 0 => HCINT1' = {} /\ ArmedNow']_vars

\* C14: the ISR always re-arms.  Whenever usb_irq_handler handles a
\* channel-1 interrupt with a keyboard recorded, whatever the status bits,
\* it returns with the channel's interrupt status cleared, channel 1 armed
\* by this run and enabled, and kbd_transfer_pending 1.
C14_IsrAlwaysRearms ==
    [][KbdIsrRun => HCINT1' = {} /\ ArmedNow']_vars


\* What the interrupt handler did on channel 1, read from its effects.
Counted(c) == debug_stats'[c] = debug_stats[c] + 1
NotCounted(c) == debug_stats'[c] = debug_stats[c]
RingKept == kbd_ring' = kbd_ring /\ npush' = npush /\ accepted' = accepted
ToggleKept == keyboard_data_toggle' = keyboard_data_toggle
ToggleFlipped == keyboard_data_toggle' = 1 - keyboard_data_toggle
\* The handler's operations on channel 1, the port's left out.
KbdOps == SelectSeq(trace, LAMBDA o : o.op # "HPRT0")
Pushed ==
    /\ kbd_ring' = kbd_ring_push(kbd_ring, intr_dma_buffer)
    /\ npush' = npush + 1
    /\ Counted("kbd_data_count")
    /\ Len(KbdOps') >= 2
    /\ KbdOps'[1].op = "invalidate"
    /\ KbdOps'[2].op = "push"
NothingPushed ==
    /\ RingKept
    /\ NotCounted("kbd_data_count")
    /\ \A i \in 1..Len(trace') : trace'[i].op # "push"
InvalidatedFirst == Len(KbdOps') >= 1 /\ KbdOps'[1].op = "invalidate"
\* The status bits the handler reads, in the order it tests them.
SawData == "XFERCOMPL" \in HCINT1 \/ {"CHHLTD", "ACK"} \subseteq HCINT1
SawNak == ~SawData /\ "NAK" \in HCINT1
SawError ==
    ~SawData /\ "NAK" \notin HCINT1
             /\ HCINT1 \cap {"STALL", "XACTERR", "BBLERR"} # {}
SawNone == ~SawData /\ ~SawNak /\ ~SawError
Received == REPORT_BYTES - HCTSIZ1.xfersize

NakOutcome ==
    /\ Counted("kbd_nak_count")
    /\ NotCounted("kbd_error_count")
    /\ NothingPushed /\ ToggleKept
ErrorOutcome ==
    /\ Counted("kbd_error_count")
    /\ NotCounted("kbd_nak_count")
    /\ NothingPushed /\ ToggleKept
NoOutcome ==
    /\ NotCounted("kbd_nak_count")
    /\ NotCounted("kbd_error_count")
    /\ NothingPushed /\ ToggleKept
DataOutcome ==
    /\ NotCounted("kbd_nak_count")
    /\ NotCounted("kbd_error_count")
    /\ ToggleFlipped
    /\ InvalidatedFirst
    /\ IF Received > 0 THEN Pushed ELSE NothingPushed
DataOutcomePushes ==
    /\ NotCounted("kbd_nak_count")
    /\ NotCounted("kbd_error_count")
    /\ ToggleFlipped
    /\ Pushed

\* C15 as stated: every channel-1 interrupt handled with a keyboard recorded
\* takes exactly one of the outcomes data, NAK and error, and the data
\* outcome pushes the report and counts it.
C15_OneOutcomeEach ==
    [][KbdIsrRun =>
          /\ SawData \/ SawNak \/ SawError
          /\ SawData => DataOutcomePushes
          /\ SawNak => NakOutcome
          /\ SawError => ErrorOutcome]_vars

\* C15: ISR outcome per keyboard interrupt.  A channel-1 interrupt handled
\* with a keyboard recorded takes at most one outcome, in the precedence
\* transfer complete, halted with ACK, NAK, stall/transaction/babble error,
\* and none when none of these bits is set.  The data outcome invalidates
\* the buffer first and flips the toggle, and when at least one byte was
\* received it hands the buffer to kbd_ring_push and counts it in
\* kbd_data_count; with nothing received the ring and kbd_data_count are
\* unchanged.  NAK counts in kbd_nak_count, an error in kbd_error_count, and
\* neither counts in another of the three outcome counters; NAK, error and
\* no outcome leave the ring and the toggle unchanged.
C15_IsrOutcome ==
    [][KbdIsrRun =>
          /\ SawData => DataOutcome
          /\ SawNak => NakOutcome
          /\ SawError => ErrorOutcome
          /\ SawNone => NoOutcome]_vars

\* A transfer completed with nothing received: the toggle was flipped by the
\* one keyboard interrupt handled, nothing was pushed or counted.
C15_Witness ==
    /\ debug_stats.kbd_irq_count = 1
    /\ keyboard_data_toggle = 1
    /\ debug_stats.kbd_data_count = 0
    /\ npush = 0
    /\ Armed


\* The values the handler that ran last wrote to HPRT0.
HprtWrites == {trace[i].val : i \in {j \in 1..Len(trace) : trace[j].op = "HPRT0"}}
\* No write made to HPRT0 had PRTENA set.
NoEnableWritten == \A w \in HprtWrites : "PRTENA" \notin w
\* Whatever is read from HPRT0, none of the three values computed from it
\* for writing back has PRTENA set.
NoEnableComputed ==
    \A hprt \in HprtValues :
        /\ "PRTENA" \notin IsrHprtAck(hprt)
        /\ "PRTENA" \notin IsrHprtReset(hprt)
        /\ "PRTENA" \notin TickHprtDeassert(hprt)
\* A handler leaves an enabled port enabled.
HandlerStep == IsrRun \/ TickCall \/ HaltPollStep
EnableKeptByHandlers ==
    HandlerStep /\ "PRTENA" \in HPRT0 => "PRTENA" \in HPRT0'

\* C16: the port-enable bit is never cleared by accident.  No write to HPRT0
\* made by usb_irq_handler or hal_usb_keyboard_tick has the write-1-to-clear
\* PRTENA bit set, for every value read from HPRT0, and so no handler
\* disables an enabled port.
C16_EnableNeverWritten ==
    /\ [](NoEnableWritten /\ NoEnableComputed)
    /\ [][EnableKeptByHandlers]_vars

\* The ISR acknowledged a port change on an enabled port: it read PRTENA
\* set, wrote HPRT0, and the port is still enabled.
C16_Witness ==
    /\ HprtWrites # {}
    /\ "PRTENA" \in HPRT0
    /\ HPRT0 \cap HprtChange = {}
    /\ debug_stats.port_irq_count > 0
    /\ port_reset_pending = 0


\* The port-recovery states.
RecoveryIdle == port_reset_pending = 0
ResetAsserted == port_reset_pending = 1
WaitingForEnable == port_reset_pending = 2
\* The interrupt handler runs on a port interrupt and reads the enable bit
\* cleared, its change flagged, and the connection bit set.
PortLossSeen == IsrRun /\ "PRTINT" \in Gintsts /\ PortLost(HPRT0)
\* It asserts reset and enters ResetAsserted; reset_tick keeps the tick.
ResetEntered ==
    PortLossSeen =>
        /\ ResetAsserted'
        /\ "PRTRST" \in HPRT0'
        /\ port_reset_start_tick' = 0
        /\ reset_tick' = tick_counter
\* The tick handler de-asserts reset and moves to WaitingForEnable.
Deasserts ==
    /\ WaitingForEnable'
    /\ "PRTRST" \notin HPRT0'
    /\ HprtWrites' # {}
    /\ port_reset_start_tick' = tick_counter'
\* The tick handler leaves reset asserted.
HoldsReset ==
    /\ ResetAsserted'
    /\ "PRTRST" \in HPRT0'
    /\ HprtWrites' = {}
\* Reset is de-asserted by the tick that comes `after` ticks after the one
\* during which the ISR saw the loss, and by no earlier one.
DeassertsAt(after) ==
    TickCall /\ ResetAsserted =>
        IF tick_counter' = reset_tick + after THEN Deasserts ELSE HoldsReset
NotLaterThan(after) ==
    ResetAsserted => /\ reset_tick >= 0
                     /\ tick_counter < reset_tick + after

\* C17 as stated: the loss seen at tick T, reset is de-asserted at tick T+5.
C17_DeassertAtFive ==
    /\ []NotLaterThan(RESET_TICKS)
    /\ [][ResetEntered /\ DeassertsAt(RESET_TICKS)]_vars

\* C17: port-loss recovery, reset phase.  When the ISR observes on a port
\* interrupt, at tick T, that the enable bit cleared while the connection
\* bit is still set, it asserts port reset and enters ResetAsserted; the
\* first tick after that (T+1) records the start, and the tick handler
\* de-asserts reset and moves to WaitingForEnable 5 ticks after the recorded
\* start, at tick T+6, not earlier and not later.
C17_ResetPhase ==
    /\ []NotLaterThan(RESET_TICKS + 1)
    /\ [][ResetEntered /\ DeassertsAt(RESET_TICKS + 1)]_vars

\* Reset was de-asserted by this tick, the sixth after the loss was seen.
C17_Witness ==
    /\ WaitingForEnable
    /\ tick_counter = reset_tick + RESET_TICKS + 1
    /\ port_reset_start_tick = tick_counter
    /\ "PRTRST" \notin HPRT0
    /\ HprtWrites # {}


\* A tick in WaitingForEnable reads the enable bit set.
EnableSeen == TickCall /\ WaitingForEnable /\ "PRTENA" \in HPRT0
\* On a channel found disabled the successful tick does re-arm.
SuccessRearmsHalted ==
    [][EnableSeen /\ HCCHAR1.chena = 0 =>
           /\ RecoveryIdle'
           /\ port_log' = Append(port_log, "re-enabled")
           /\ usb_state.keyboard_addr # 0 => ArmedNow'
           /\ usb_state.keyboard_addr = 0 => ~Armed' /\ HCCHAR1' = HCCHAR1]_vars

\* C18: port-loss recovery, success.  A tick in WaitingForEnable that reads
\* the port enable bit set, within the 10 ticks of the enable wait, returns
\* the recovery state to Idle and, when a keyboard is recorded, has re-armed
\* channel 1 when it returns: the channel is enabled, armed by this tick,
\* with the transfer pending.
C18_RecoverySuccess ==
    [][EnableSeen =>
           /\ tick_counter' - port_reset_start_tick <= ENABLE_WAIT_TICKS
           /\ RecoveryIdle'
           /\ usb_state.keyboard_addr # 0 => ArmedNow']_vars


\* A step of the tick handler.
TickStep == TickCall \/ HaltPollStep
\* A tick in WaitingForEnable reads the enable bit clear: at the deadline, 10
\* ticks after reset was de-asserted, it gives up and logs the timeout, and
\* before the deadline it goes on waiting; it writes nothing to HPRT0.
TimesOutAtDeadline ==
    TickCall /\ WaitingForEnable /\ "PRTENA" \notin HPRT0 =>
        /\ HPRT0' = HPRT0
        /\ HprtWrites' = {}
        /\ IF tick_counter' = port_reset_start_tick + ENABLE_WAIT_TICKS
           THEN RecoveryIdle' /\ port_log' = Append(port_log, "timeout")
           ELSE WaitingForEnable' /\ port_log' = port_log
DeadlineKept ==
    WaitingForEnable =>
        tick_counter < port_reset_start_tick + ENABLE_WAIT_TICKS
\* A message is logged once, by the tick that ends a recovery.
LoggedOnce ==
    port_log' # port_log =>
        /\ TickCall /\ WaitingForEnable /\ RecoveryIdle'
        /\ Len(port_log') = Len(port_log) + 1
\* The tick handler never asserts reset and never enters ResetAsserted; only
\* the interrupt handler, on a port loss, leaves Idle.
NoRetry ==
    /\ TickStep =>
          /\ "PRTRST" \in HPRT0' => "PRTRST" \in HPRT0
          /\ \A w \in HprtWrites' : "PRTRST" \notin w
          /\ ResetAsserted' => ResetAsserted
    /\ RecoveryIdle /\ ~RecoveryIdle' => PortLossSeen

\* C19: port-loss recovery, timeout.  When the enable bit is not read set by
\* the deadline of the enable wait, the recovery state returns to Idle once
\* and one timeout is logged; the tick handler never asserts port reset
\* itself, so there is no automatic retry of the reset.
C19_TimeoutNoRetry ==
    /\ []DeadlineKept
    /\ [][TimesOutAtDeadline /\ LoggedOnce /\ NoRetry]_vars

\* A recovery timed out and a later tick has run: one timeout logged, the
\* recovery Idle, the port neither enabled nor in reset.
C19_Witness ==
    /\ port_log = <<"timeout">>
    /\ RecoveryIdle
    /\ "PRTENA" \notin HPRT0
    /\ "PRTRST" \notin HPRT0
    /\ "PRTCONNSTS" \in HPRT0
    /\ tick_counter > port_reset_start_tick + ENABLE_WAIT_TICKS


\* ======================================================== hub port properties
\* The ports usb_enumerate_device_at was called for, in call order.
CalledPorts == [i \in 1..Len(enum_calls) |-> enum_calls[i].port]
Ascending(s) == \A i, j \in 1..Len(s) : i < j => s[i] < s[j]
Returned == hub_pc = "done"
\* The ports are taken up in the order 1, 2, ..., each once, and all of
\* them by the time the function returns.
PortsInOrder ==
    /\ \A i \in 1..Len(visited) : visited[i] = i
    /\ Len(visited) <= num_ports
    /\ Returned => Len(visited) = num_ports /\ hub_ret = 0
\* The port reported a connection after power-on and enabled after reset.
ReportedReady(p) ==
    /\ port_reports[p].connected = "yes"
    /\ port_reports[p].enabled = "yes"
\* The port reported a connection, and after the reset either reported
\* enabled or delivered no byte of its status.
ReadyOrSilent(p) ==
    /\ port_reports[p].connected = "yes"
    /\ port_reports[p].enabled \in {"yes", "unread"}
CallsWellFormed ==
    /\ Ascending(CalledPorts)
    /\ \A i \in 1..Len(enum_calls) :
          /\ enum_calls[i].hub = hub_addr
          /\ enum_calls[i].port \in 1..num_ports
          /\ enum_calls[i].speed \in {0, 1, 2}
\* Every port that reported ready is enumerated, and only ports that did or
\* that answered the second status read with no data.
CallsForReadyOrSilent ==
    /\ PortsInOrder
    /\ CallsWellFormed
    /\ \A i \in 1..Len(enum_calls) : ReadyOrSilent(enum_calls[i].port)
    /\ Returned =>
          \A p \in 1..num_ports :
              ReportedReady(p) => \E i \in 1..Len(enum_calls) :
                                      enum_calls[i].port = p

\* C20: hub port order.  usb_enumerate_hub(hub, N) takes up the ports 1..N
\* each once in ascending order and calls usb_enumerate_device_at(hub, port,
\* speed), in ascending port order, for exactly the ports that reported a
\* connection after power-on and reported enabled after the reset; so a
\* 4-port hub with devices on ports 2 and 4 only gets two calls, for port 2
\* then port 4.
C20_HubPortOrder ==
    /\ PortsInOrder
    /\ CallsWellFormed
    /\ \A i \in 1..Len(enum_calls) : ReportedReady(enum_calls[i].port)
    /\ Returned =>
          \A p \in 1..num_ports :
              ReportedReady(p) => \E i \in 1..Len(enum_calls) :
                                      enum_calls[i].port = p

\* ---------------------------------------------------------------- C21
\* C21: sibling isolation.  In the port loop of a hub a failure on one port
\* (power-on, a status read or the reset failing, or the enumeration of the
\* device behind the port aborting for any reason) never stops the loop:
\* the ports are entered in the order 1, 2, ..., the loop returns only
\* after the last of them, and it returns 0.
InHubLoop == en_pc = "in_hub" /\ hub_pc \in {"power", "status1", "reset",
                                            "status2", "clear", "enum",
                                            "done"}
UpTo(n) == [i \in 1..n |-> i]
C21_SiblingIsolation ==
    /\ InHubLoop =>
        /\ hub_pc = "power" => visited = UpTo(port - 1) /\ port <= num_ports
        /\ hub_pc \in {"status1", "reset", "status2", "clear", "enum"} =>
               visited = UpTo(port) /\ port <= num_ports
        /\ hub_pc = "done" => visited = UpTo(num_ports) /\ hub_ret = 0
    /\ \A i \in 1..Len(en_stack) :
           en_stack[i].kind = "hub" =>
               /\ en_stack[i].visited = UpTo(en_stack[i].port)
               /\ en_stack[i].port <= en_stack[i].num_ports
\* The loop of a hub of two ports has returned: the device behind port 1 took
\* address 2 and its enumeration failed, the one behind port 2 was enumerated
\* with address 3.
C21_Witness ==
    /\ en_pc = "in_hub"
    /\ hub_pc = "done"
    /\ num_ports = 2
    /\ visited = <<1, 2>>
    /\ en_ret = 0
    /\ num_devices = 2
    /\ devices[2].address = 3
    /\ devices[2].parent_port = 2

\* ---------------------------------------------------------------- C22
\* C22: registry capacity.  The number of registered devices never exceeds
\* MAX_USB_DEVICES, for any topology and recursion depth, and a call of
\* usb_enumerate_device_at entered with the registry full returns an error
\* without issuing a transfer, without consuming an address and without
\* modifying the registry.
FullAtEntry ==
    /\ hub_pc = "enum"
    /\ en_pc = "in_hub"
    /\ num_devices >= MAX_USB_DEVICES
RegistryBounded ==
    /\ num_devices <= MAX_USB_DEVICES
    /\ Len(devices) = num_devices
FullCallRejected ==
    FullAtEntry =>
        /\ en_ret' = -1
        /\ en_pc' = "in_hub"
        /\ UNCHANGED <<last_req, next_address, num_devices, devices,
                       device_speed, usb_state, en_stack>>
C22_RegistryCapacity == []RegistryBounded /\ [][FullCallRejected]_vars
\* The device enumerated last was configured and returned 0; a later call
\* found the registry full and returned -1 with no request of its own.
C22_Witness ==
    /\ en_pc = "in_hub"
    /\ hub_pc \in {"power", "done"}
    /\ num_devices = MAX_USB_DEVICES
    /\ en_ret = -1
    /\ last_req.req = "SET_CONFIGURATION"
    /\ last_req.ok
    /\ last_req.addr = next_address

\* ---------------------------------------------------------------- C23
\* C23: within one enumeration run the addresses are monotonic and unique:
\* every SET_ADDRESS carries an address above all addresses tried before,
\* so the address of a failed SET_ADDRESS is never used again, and the
\* addresses of the records strictly increase in registry order.
RecordAddresses == [i \in 1..Len(devices) |-> devices[i].address]
AddressesIncrease ==
    /\ Ascending(RecordAddresses)
    /\ \A i \in 1..Len(devices) :
           1 <= devices[i].address /\ devices[i].address <= next_address
\* A step in which SET_ADDRESS goes out.
SetsAddress == en_pc = "addr" /\ last_req'.req = "SET_ADDRESS"
AddressFresh ==
    /\ en_pc # "idle" => next_address' >= next_address
    /\ SetsAddress =>
        /\ last_req'.wValue = next_address'
        /\ next_address' > next_address
        /\ \A i \in 1..Len(devices) : devices[i].address < last_req'.wValue
C23_AddressesUnique == []AddressesIncrease /\ [][AddressFresh]_vars
\* Two records whose addresses are not consecutive: the address between
\* them went to a device whose SET_ADDRESS failed.
C23_Witness ==
    /\ num_devices = 2
    /\ devices[1].address = 1
    /\ devices[2].address = 3

\* ---------------------------------------------------------------- C24
\* C24: address range.  Every address enumeration produces (the wValue of a
\* SET_ADDRESS, the address stored in a record, the address a request is
\* sent to) lies in 1..127, for any sequence of attempts, failed ones
\* included.
ADDRESS_MAX == 127
C24_AddressRange ==
    /\ last_req.req = "SET_ADDRESS" =>
           last_req.wValue \in 1..ADDRESS_MAX
    /\ last_req.req \notin {"NONE", "SET_ADDRESS"} =>
           last_req.addr \in 0..ADDRESS_MAX
    /\ \A i \in 1..Len(devices) : devices[i].address \in 1..ADDRESS_MAX

\* ---------------------------------------------------------------- C25
\* C25: the walk over the configuration descriptor is bounded.  Each turn
\* of the loop strictly increases the offset and is taken only at an
\* offset below both the declared total length and the buffer size and
\* over a sub-descriptor of length other than 0; the walk is left as soon
\* as the total length is consumed, the buffer is exhausted or a
\* sub-descriptor of length 0 is met; so it ends after at most
\* CONFIG_BUF_SIZE turns whatever the buffer holds.
WalkTurn == en_pc = "walk" /\ en_pc' = "walk"
WalkLeft == en_pc = "walk" /\ en_pc' # "walk"
WalkBounded ==
    /\ WalkTurn =>
        /\ dv'.offset > dv.offset
        /\ dv'.offset <= dv.offset + 255
        /\ dv.offset < TotalLength(dv.cfg)
        /\ dv.offset < CONFIG_BUF_SIZE
        /\ Mem(dv.cfg, dv.offset) # 0
        /\ dv'.cfg = dv.cfg
    /\ WalkLeft =>
        /\ \/ dv.offset >= TotalLength(dv.cfg)
           \/ dv.offset >= CONFIG_BUF_SIZE
           \/ Mem(dv.cfg, dv.offset) = 0
        /\ dv' = dv
        /\ en_pc' = "setcfg"
WalkInBuffer == en_pc = "walk" => dv.offset \in 0..(CONFIG_BUF_SIZE + 254)
C25_WalkBounded == []WalkInBuffer /\ [][WalkBounded]_vars
\* A walk left because the buffer was exhausted before the declared total
\* length was consumed.
C25_Witness ==
    /\ en_pc = "setcfg"
    /\ dv.offset >= CONFIG_BUF_SIZE
    /\ dv.offset < TotalLength(dv.cfg)

\* ---------------------------------------------------------------- C26
\* What the device's configuration descriptor contains, read as the USB
\* specification lays it out: the sub-descriptors after the header, each
\* interface followed by its endpoints.
RECURSIVE ItemsFrom(_, _)
ItemsFrom(image, off) ==
    IF off >= Len(image) \/ image[off + 1] = 0
    THEN {}
    ELSE {off} \cup ItemsFrom(image, off + image[off + 1])
Items(image) == ItemsFrom(image, image[1])
\* The header and the sub-descriptors tile the declared total length.
WellFormed(image) ==
    /\ image[1] = 9
    /\ image[3] + 256 * image[4] = Len(image)
    /\ Len(image) <= CONFIG_BUF_SIZE
    /\ \A off \in Items(image) :
           image[off + 1] >= 2 /\ off + image[off + 1] <= Len(image)
IsInterfaceAt(image, off) == image[off + 2] = USB_DESC_INTERFACE
IsEndpointAt(image, off) == image[off + 2] = USB_DESC_ENDPOINT
\* The endpoints of the interface at offset i: those before the next
\* interface.
EndpointsOf(image, i) ==
    { e \in Items(image) :
        /\ e > i
        /\ IsEndpointAt(image, e)
        /\ ~\E j \in Items(image) : i < j /\ j < e /\ IsInterfaceAt(image, j) }
InterruptInOf(image, i) ==
    { e \in EndpointsOf(image, i) :
        image[e + 4] % 4 = 3 /\ image[e + 3] >= 128 }
\* The HID interfaces with boot-keyboard protocol that have an
\* interrupt-IN endpoint.
KeyboardInterfaces(image) ==
    { i \in Items(image) :
        /\ IsInterfaceAt(image, i)
        /\ image[i + 6] = USB_CLASS_HID
        /\ image[i + 8] = USB_HID_PROTOCOL_KEYBOARD
        /\ InterruptInOf(image, i) # {} }
First(S) == CHOOSE x \in S : \A y \in S : x <= y

\* usb_enumerate_device_at returns 0 for a device that sent a well-formed
\* configuration descriptor in full.
Successful ==
    /\ en_pc = "ret"
    /\ en_ret = 0
    /\ dv.cfg.got >= Len(ConfigImage(dv.cfg.img))
    /\ WellFormed(ConfigImage(dv.cfg.img))
RecordedAsKeyboard == usb_state.keyboard_addr = dv.new_addr
\* The record is the one of the first interrupt-IN endpoint of the keyboard
\* interface, and the HID requests went to that interface.
RecordMatches(image) ==
    LET i == First(KeyboardInterfaces(image))
        e == First(InterruptInOf(image, i))
    IN  /\ keyboard_ep = image[e + 3] % 16
        /\ keyboard_mps = image[e + 5] + 256 * image[e + 6]
        /\ keyboard_interval = image[e + 7]
        /\ last_req.req = "SET_IDLE"
        /\ last_req.wIndex = image[i + 3]
\* C26: after a successful usb_enumerate_device_at the device is recorded
\* as the keyboard exactly when its configuration descriptor contains a HID
\* interface with boot-keyboard protocol that has an interrupt-IN endpoint;
\* the endpoint number, packet size and interval recorded are those of the
\* first interrupt-IN endpoint of that interface, and the HID requests are
\* sent to that interface.
C26_KeyboardClassified ==
    Successful =>
        LET image == ConfigImage(dv.cfg.img)
        IN  /\ RecordedAsKeyboard <=> KeyboardInterfaces(image) # {}
            /\ KeyboardInterfaces(image) # {} => RecordMatches(image)

\* ---------------------------------------------------------------- C27
\* C27: the HID setup is best effort.  Whether SET_PROTOCOL(Boot) fails,
\* SET_IDLE(0) fails, or both, usb_enumerate_device_at attempts both,
\* returns success, and the keyboard's address, endpoint, packet size and
\* interval stay recorded.
KeyboardRecorded ==
    /\ usb_state.keyboard_addr = dv.new_addr
    /\ keyboard_ep = dv.keyboard_ep
    /\ keyboard_mps = dv.keyboard_mps
    /\ keyboard_interval = dv.keyboard_interval
HidSetupStep ==
    /\ en_pc = "kbd" /\ KeyboardFound(dv) =>
        /\ last_req'.req = "SET_PROTOCOL"
        /\ last_req'.addr = dv.new_addr
        /\ en_pc' = "set_idle"
        /\ KeyboardRecorded'
    /\ en_pc = "set_idle" =>
        /\ last_req.req = "SET_PROTOCOL"
        /\ last_req'.req = "SET_IDLE"
        /\ last_req'.addr = dv.new_addr
        /\ en_pc' = "ret"
        /\ en_ret' = 0
        /\ KeyboardRecorded'
\* The request issued last is one of the running call.
OwnRequest == last_req.hub = dv.hub /\ last_req.port = dv.port
HidSetupDone ==
    en_pc = "ret" /\ last_req.req = "SET_IDLE" /\ OwnRequest =>
        en_ret = 0 /\ KeyboardRecorded /\ KeyboardFound(dv)
C27_HidBestEffort == []HidSetupDone /\ [][HidSetupStep]_vars
\* Both requests failed and the call returned 0 with the keyboard recorded.
C27_Witness ==
    /\ en_pc = "ret"
    /\ en_ret = 0
    /\ dv.set_protocol_ret = -1
    /\ last_req.req = "SET_IDLE"
    /\ OwnRequest
    /\ ~last_req.ok
    /\ usb_state.keyboard_addr = dv.new_addr
    /\ keyboard_ep = dv.keyboard_ep

\* ------------------------------------------------------------------- C28
\* C28: channel 0 belongs to the control-transfer engine alone: a run of
\* usb_irq_handler writes none of channel 0's registers, in particular it
\* leaves channel 0's interrupt status as it found it, so a completion the
\* controller raised there is still seen by the poll loop.
C28_IsrLeavesChannel0 ==
    [][usb_irq_handler_hw => UNCHANGED <<HCINT0, HCCHAR0, HCTSIZ0>>]_vars

\* ------------------------------------------------------------------- C29
\* C29: one transfer at a time on the keyboard channel: whichever of
\* usb_start_keyboard_transfer, usb_irq_handler and hal_usb_keyboard_tick
\* programs and enables channel 1, under every interleaving of the three,
\* does so only while the channel is not enabled.  (The step that programs
\* the channel is also the one that writes kbd_transfer_pending = 1.)
ProgramsChannel1 ==
    \/ start_program
    \/ start_enable
    \/ /\ usb_irq_handler_hw \/ hal_usb_keyboard_tick
       /\ \E i \in 1..Len(trace') : trace'[i].op = "arm"
C29_SingleOutstanding ==
    [][ProgramsChannel1 => HCCHAR1.chena = 0]_vars

\* ------------------------------------------------------------------- C30
\* C30: the DMA buffer changes hands at every transfer boundary; for a
\* keyboard poll: a run of a handler that enables channel 1 has invalidated
\* the buffer before (the main loop does so in the step before it enables),
\* a run of usb_irq_handler that copies the buffer into the ring has
\* invalidated it before, and the buffer is copied only while channel 1 is
\* not enabled, that is after the completion of the transfer in flight.
HandlerEnables ==
    /\ usb_irq_handler_hw \/ hal_usb_keyboard_tick
    /\ \E i \in 1..Len(trace') : trace'[i].op = "arm"
CopiesBuffer ==
    /\ usb_irq_handler_hw
    /\ kbd_ring'.head # kbd_ring.head
OpBefore(first, then) ==
    \A j \in 1..Len(KbdOps') :
        KbdOps'[j].op = then =>
            \E i \in 1..(j - 1) : KbdOps'[i].op = first
C30_DmaHandoff ==
    [][/\ HandlerEnables => OpBefore("invalidate", "arm")
       /\ CopiesBuffer => OpBefore("invalidate", "push")
       /\ CopiesBuffer => HCCHAR1.chena = 0]_vars

\* ------------------------------------------------------------------- C31
\* C31: the debug counters only ever increase and are written by the
\* handlers alone: a step that changes a counter is a step of
\* usb_irq_handler or of hal_usb_keyboard_tick, never one of the main loop.
CountersGrow ==
    \A c \in Counters : debug_stats'[c] >= debug_stats[c]
C31_CountersHandlersOnly ==
    [][/\ CountersGrow
       /\ debug_stats' # debug_stats =>
              usb_irq_handler_hw \/ hal_usb_keyboard_tick]_vars

\* ------------------------------------------------------------------- C32
\* C32: the setup packet survives the round trip: the 8 bytes handed to the
\* SETUP stage, read back as two bytes and three little-endian words, are
\* the request type, request, value, index and length the builder was
\* called for; the length is the data length passed to the transfer and
\* bit 7 of the request type is the transfer's data direction.
Word(lo, hi) == lo + 256 * hi
ParseSetup(b) ==
    [wValue |-> Word(b[3], b[4]), wIndex |-> Word(b[5], b[6]),
     bmRequestType |-> b[1], bRequest |-> b[2], wLength |-> Word(b[7], b[8])]
WaitReturnsOk ==
    /\ ct_pc = "wait"
    /\ ct_pc' = "after_wait"
    /\ wait_ret' = 0
SuccessSignal(hcint) ==
    "XFERCOMPL" \in hcint \/ {"CHHLTD", "ACK"} \subseteq hcint
C33_SuccessOnlyOnSignal ==
    [][WaitReturnsOk => SuccessSignal(HCINT0)]_vars

\* ------------------------------------------------------------------- C34
\* C34: after a port-recovery timeout the device stays unusable: once the
\* wait for the enable bit has ended with the timeout, and as long as no new
\* port event occurs, no run of hal_usb_keyboard_tick (watchdog or idle
\* fallback) and no run of usb_irq_handler arms the keyboard channel.
TimedOut ==
    /\ port_log # <<>>
    /\ port_log[Len(port_log)] = "timeout"
C34_UnusableAfterTimeout ==
    [][(TimedOut /\ port_events' = port_events) =>
           ~HandlerEnables]_vars

\* ------------------------------------------------------------------- C35
\* C35: keyboard polling is stopped during port recovery: a step of
\* usb_start_keyboard_transfer, usb_irq_handler or hal_usb_keyboard_tick
\* that programs and enables channel 1 leaves the recovery state Idle, so
\* that between the ISR entering ResetAsserted and the tick that observes
\* the port enabled (which returns to Idle and resumes polling in one run)
\* the channel is never armed.
C35_NoPollingDuringRecovery ==
    [][ProgramsChannel1 => port_reset_pending' = 0]_vars

\* ------------------------------------------------------------------- C36
\* C36: a disconnect is terminal until enumeration runs again: the run of
\* usb_irq_handler that finds a connect change with the connection bit
\* clear leaves keyboard_addr = 0, device_connected = 0 and
\* kbd_transfer_pending = 0; from then on the two fields stay 0, no run of
\* usb_irq_handler or hal_usb_keyboard_tick touches channel 1's enable bit
\* or arms the channel, a call of usb_start_keyboard_transfer returns at its
\* tests, and a call of hal_usb_keyboard_poll returns -1.
Gone ==
    /\ usb_state.device_connected = 0
    /\ usb_state.keyboard_addr = 0
SeesDisconnect ==
    /\ usb_irq_handler_hw
    /\ "PRTINT" \in Gintsts
    /\ Disconnected({"PRTINT"}, HPRT0)
C36_DisconnectTerminal ==
    [][/\ SeesDisconnect => Gone' /\ kbd_transfer_pending' = 0
       /\ Gone => Gone'
       /\ Gone /\ (usb_irq_handler_hw \/ hal_usb_keyboard_tick) =>
              ~HandlerEnables /\ HCCHAR1' = HCCHAR1
       /\ Gone => ~start_enter
       /\ Gone /\ poll_enter => pc' = "ret" /\ ret' = -1]_vars
\* A keyboard was polled, the disconnect was seen, and a poll made afterwards
\* has returned -1.
C36_Witness ==
    /\ Gone
    /\ debug_stats.kbd_restart_count > 0
    /\ pc = "ret"
    /\ ret = -1
    /\ tick_counter > 1

\* ------------------------------------------------------------------- C37
\* C37: the ring index invariant: after any sequence of pushes and pops head
\* and tail are within 0..KBD_RING_SIZE-1, head equals tail exactly when no
\* stored report is waiting to be popped, and the reports waiting, which
\* number (head - tail) mod KBD_RING_SIZE, are never more than
\* KBD_RING_SIZE - 1.
Undelivered == Len(accepted) - npop
C37_RingIndexInvariant ==
    /\ kbd_ring.head \in 0..(KBD_RING_SIZE - 1)
    /\ kbd_ring.tail \in 0..(KBD_RING_SIZE - 1)
    /\ (kbd_ring.head = kbd_ring.tail) <=> (Undelivered = 0)
    /\ Undelivered = (kbd_ring.head - kbd_ring.tail + KBD_RING_SIZE)
                         % KBD_RING_SIZE
    /\ Undelivered <= KBD_RING_SIZE - 1
\* The ring full after the indices have wrapped, and a push dropped.
C37_Witness ==
    /\ Undelivered = KBD_RING_SIZE - 1
    /\ kbd_ring.head < kbd_ring.tail
    /\ npush > Len(accepted)

\* ------------------------------------------------------------------- C38
\* C38: the walk over the configuration descriptor reads only bytes that
\* were received: in every turn of the loop the length byte at offset, the
\* type byte at offset + 1 and the interface or endpoint fields decoded
\* lie below the number of bytes the GET_CONFIGURATION transfer returned,
\* and so inside the 256-byte buffer.
ConfigReceived(cfg) ==
    Min(Min(cfg.got, Len(ConfigImage(cfg.img))), CONFIG_BUF_SIZE)
WalkReads(d) ==
    LET type == Mem(d.cfg, d.offset + 1) IN
    {d.offset, d.offset + 1}
        \cup (IF type = USB_DESC_INTERFACE
              THEN {d.offset + 2, d.offset + 5, d.offset + 7}
              ELSE IF TakesEndpoint(d, type)
              THEN {d.offset + 2, d.offset + 3}
                   \cup (IF InterruptIn(Mem(d.cfg, d.offset + 2),
                                        Mem(d.cfg, d.offset + 3))
                         THEN {d.offset + 4, d.offset + 5, d.offset + 6}
                         ELSE {})
              ELSE {})
C38_WalkReadsReceived ==
    [][WalkTurn => \A i \in WalkReads(dv) : i < ConfigReceived(dv.cfg)]_vars

\* ------------------------------------------------------------------- C39
\* C39: the speed override for the default address is temporary: whenever
\* usb_enumerate_device_at returns, with success or with an error from any
\* of its steps, usb_state.device_speed has the value it had when the call
\* was entered.
C39_SpeedRestored ==
    en_pc = "ret" => device_speed = dv.old_speed

\* ------------------------------------------------------------------- C40
\* C40: the registry holds only fully enumerated devices: when
\* usb_enumerate_device_at returns an error the registry is as it was at
\* entry, so no record carries the address the failed call assigned.
C40_RegistryOnlyEnumerated ==
    en_pc = "ret" /\ en_ret = -1 =>
        \A k \in 1..num_devices : devices[k].address # dv.new_addr

=============================================================================
